---- MODULE Spec2Model ----
(***************************************************************************)
(* A model of the task-extraction pipeline (backend/ai/nlp/task_parser.py), *)
(* the natural-language date resolver (backend/utils/date_parser.py) and    *)
(* the parse-task route (backend/routes/ai_routes.py).                      *)
(*                                                                         *)
(* Texts are TLA+ strings; a character is a string of length 1.  Python's  *)
(* None is NoneS where a string may stand, NoneI where an integer may      *)
(* stand and NoneD where a dict may stand.                                 *)
(***************************************************************************)
EXTENDS Integers, Sequences, FiniteSets, TLC

NoneS == "<None>"
NoneI == -1
NoneD == [none |-> TRUE]
\* {} of Python
EmptyDict == [key \in {} |-> NoneS]

-----------------------------------------------------------------------------
(* Python str primitives                                                   *)

\* s[a-1:b] of Python (positions from 1, both ends included, clipped to s)
Slice(s, a, b) ==
    SubSeq(s, IF a < 1 THEN 1 ELSE a, IF b > Len(s) THEN Len(s) ELSE b)

Ch(s, i) == SubSeq(s, i, i)

StrSet(s) == {Ch(s, i) : i \in 1..Len(s)}

UpperAlpha == "ABCDEFGHIJKLMNOPQRSTUVWXYZ"
LowerAlpha == "abcdefghijklmnopqrstuvwxyz"
DigitChars == "0123456789"

UpperSet == StrSet(UpperAlpha)
DigitSet == StrSet(DigitChars)
\* \s of the re module, as far as the texts of the model go
SpaceSet == {" ", "\t", "\n"}
\* \w of the re module: letters, digits and the underscore
WordSet == StrSet(UpperAlpha) \cup StrSet(LowerAlpha) \cup DigitSet \cup {"_"}

\* str.lower() on one character
LowerCh(c) ==
    IF c \in UpperSet
    THEN Ch(LowerAlpha, CHOOSE i \in 1..26 : Ch(UpperAlpha, i) = c)
    ELSE c

\* str.lower(), character by character (by halves: the recursion stays shallow)
RECURSIVE Lower(_)
Lower(s) ==
    IF Len(s) = 0 THEN ""
    ELSE IF Len(s) = 1 THEN LowerCh(s)
    ELSE Lower(SubSeq(s, 1, Len(s) \div 2)) \o Lower(SubSeq(s, Len(s) \div 2 + 1, Len(s)))

Min(S) == CHOOSE m \in S : \A n \in S : m <= n
Max(S) == CHOOSE m \in S : \A n \in S : m >= n

\* s[:n]
Prefix(s, n) == SubSeq(s, 1, IF n < Len(s) THEN n ELSE Len(s))

\* `k in s` for strings
Contains(s, k) == \E i \in 1..(Len(s) - Len(k) + 1) : Slice(s, i, i + Len(k) - 1) = k

\* the first position >= i of s that holds no whitespace, Len(s)+1 if none
SkipSpace(s, i) ==
    Min({j \in i..Len(s) : Ch(s, j) \notin SpaceSet} \cup {Len(s) + 1})

\* the first position >= i of s that holds whitespace, Len(s)+1 if none
SkipWord(s, i) ==
    Min({j \in i..Len(s) : Ch(s, j) \in SpaceSet} \cup {Len(s) + 1})

\* the positions at which a maximal run of non-whitespace starts
WordStarts(s) ==
    {i \in 1..Len(s) : Ch(s, i) \notin SpaceSet /\ (i = 1 \/ Ch(s, i - 1) \in SpaceSet)}

\* str.split(): the maximal runs of non-whitespace, in order
Split(s) ==
    LET starts == WordStarts(s)
        Nth(k) == CHOOSE i \in starts : Cardinality({j \in starts : j < i}) = k - 1
    IN  [k \in 1..Cardinality(starts) |-> SubSeq(s, Nth(k), SkipWord(s, Nth(k)) - 1)]

\* len(s.split())
WordCount(s) == Cardinality(WordStarts(s))

\* ' '.join(words) (by halves: the recursion stays shallow)
RECURSIVE Join(_)
Join(words) ==
    IF Len(words) = 0 THEN ""
    ELSE IF Len(words) = 1 THEN words[1]
    ELSE Join(SubSeq(words, 1, Len(words) \div 2)) \o " "
             \o Join(SubSeq(words, Len(words) \div 2 + 1, Len(words)))

\* the last position <= i of s that holds no whitespace, 0 if none
BackSpace(s, i) ==
    Max({j \in 1..i : Ch(s, j) \notin SpaceSet} \cup {0})

\* str.strip()
Strip(s) == SubSeq(s, SkipSpace(s, 1), BackSpace(s, Len(s)))

-----------------------------------------------------------------------------
(* The re module: a backtracking matcher.  A pattern is a sequence of items *)
(*   [k |-> "lit", v |-> str]          the literal str                      *)
(*   [k |-> "cls", c |-> set, lo, hi]  lo..hi characters of c, greedy       *)
(*   [k |-> "alt", a |-> <<p1, ...>>]  p1|p2|..., tried in order            *)
(*   [k |-> "opt", p |-> pattern]      (?:p)?, greedy                       *)
(*   [k |-> "open", n], [k |-> "close", n]   the n-th capturing group       *)
(*   [k |-> "wb"]                      \b                                   *)
(* Matching runs on the lower-cased text (re.IGNORECASE with lower-case     *)
(* patterns).  A position i stands before character i.                     *)

Lit(v) == [k |-> "lit", v |-> v]
Cls(c, lo, hi) == [k |-> "cls", c |-> c, lo |-> lo, hi |-> hi]
Alt(a) == [k |-> "alt", a |-> a]
Opt(p) == [k |-> "opt", p |-> p]
Open(n) == [k |-> "open", n |-> n]
Close(n) == [k |-> "close", n |-> n]
WB == [k |-> "wb"]
\* an unbounded repetition
Many == 1000000

\* (p) as the n-th group
Group(n, p) == <<Open(n)>> \o p \o <<Close(n)>>
\* a|b|c of literals
Words(ws) == Alt([i \in 1..Len(ws) |-> <<Lit(ws[i])>>])

MatchFail == [ok |-> FALSE]

\* how many characters of cset stand at s[i..], at most hi
Run(cset, s, i, hi) ==
    LET limit == IF hi < Len(s) - i + 1 THEN hi ELSE Len(s) - i + 1
    IN  Min({n \in 0..(limit - 1) : Ch(s, i + n) \notin cset} \cup {limit})

IsWordAt(s, i) == i >= 1 /\ i <= Len(s) /\ Ch(s, i) \in WordSet

RECURSIVE Match(_, _, _, _)
RECURSIVE TryAlts(_, _, _, _, _, _)
RECURSIVE TryCounts(_, _, _, _, _, _)
RECURSIVE LongestOf(_, _, _, _, _)
RECURSIVE OrElse(_, _, _, _, _)
RECURSIVE OrNextAlt(_, _, _, _, _, _, _)

\* the match of `items` starting at position i, by sre's priorities
Match(items, s, i, caps) ==
    IF items = <<>> THEN [ok |-> TRUE, end |-> i, caps |-> caps]
    ELSE LET it == Head(items)
             rest == Tail(items)
         IN  CASE it.k = "lit" ->
                    IF Slice(s, i, i + Len(it.v) - 1) = it.v
                    THEN Match(rest, s, i + Len(it.v), caps)
                    ELSE MatchFail
               [] it.k = "cls" ->
                    TryCounts(it.lo, Run(it.c, s, i, it.hi), rest, s, i, caps)
               [] it.k = "alt" -> TryAlts(it.a, rest, s, i, caps, 1)
               [] it.k = "opt" -> OrElse(Match(it.p \o rest, s, i, caps), rest, s, i, caps)
               [] it.k = "open" ->
                    Match(rest, s, i, [caps EXCEPT ![it.n] = <<i, i - 1>>])
               [] it.k = "close" ->
                    Match(rest, s, i, [caps EXCEPT ![it.n] = <<@[1], i - 1>>])
               [] it.k = "wb" ->
                    IF IsWordAt(s, i - 1) # IsWordAt(s, i)
                    THEN Match(rest, s, i, caps)
                    ELSE MatchFail

\* an optional part's match r, or else the match without the part
OrElse(r, rest, s, i, caps) == IF r.ok THEN r ELSE Match(rest, s, i, caps)

\* the match of `rest` after the greatest of the counts `good`
LongestOf(rest, s, i, caps, good) ==
    IF good = {} THEN MatchFail ELSE Match(rest, s, i + Max(good), caps)

\* a greedy repetition: the longest count first, down to lo
TryCounts(lo, n, rest, s, i, caps) ==
    LongestOf(rest, s, i, caps, {c \in lo..n : Match(rest, s, i + c, caps).ok})

\* the j-th alternative's match r, or else the later alternatives
OrNextAlt(r, alts, rest, s, i, caps, j) ==
    IF r.ok THEN r ELSE TryAlts(alts, rest, s, i, caps, j + 1)

TryAlts(alts, rest, s, i, caps, j) ==
    IF j > Len(alts) THEN MatchFail
    ELSE OrNextAlt(Match(alts[j] \o rest, s, i, caps), alts, rest, s, i, caps, j)

\* no group has matched: group(n) is None
NoCaps(ng) == [n \in 1..ng |-> <<0, -1>>]

\* a match object: r is Match's result for a start at position i
MatchObject(r, i) ==
    IF r.ok THEN [ok |-> TRUE, start |-> i, end |-> r.end, caps |-> r.caps]
    ELSE MatchFail

\* re.match at position i of a pattern with ng groups
MatchAt(pat, ng, s, i) == MatchObject(Match(pat, s, i, NoCaps(ng)), i)

\* the match at the least of the positions `hits`
LeftmostOf(pat, ng, s, hits) ==
    IF hits = {} THEN MatchFail ELSE MatchAt(pat, ng, s, Min(hits))

\* re.search from position i on: the leftmost match
SearchFrom(pat, ng, s, i) ==
    LeftmostOf(pat, ng, s, {j \in i..(Len(s) + 1) : Match(pat, s, j, NoCaps(ng)).ok})

\* match.group(n): NoneS for a group that did not take part
GroupText(s, m, n) ==
    IF m.caps[n][1] = 0 THEN NoneS ELSE SubSeq(s, m.caps[n][1], m.caps[n][2])

\* re.sub(pat, '', text, flags=re.IGNORECASE): every non-overlapping match
\* removed; low is Lower(text).  None of the patterns matches the empty string.
RECURSIVE SubFrom(_, _, _, _, _)
\* text[i..] with the match r, the leftmost from i on, and all later ones removed
SubAfter(pat, ng, text, low, i, r) ==
    IF ~r.ok THEN Slice(text, i, Len(text))
    ELSE Slice(text, i, r.start - 1) \o SubFrom(pat, ng, text, low, r.end)

SubFrom(pat, ng, text, low, i) ==
    SubAfter(pat, ng, text, low, i, SearchFrom(pat, ng, low, i))

ReSub(pat, ng, text) == SubFrom(pat, ng, text, Lower(text), 1)

\* text without the match r at its start
CutMatch(text, r) == IF r.ok THEN Slice(text, r.end, Len(text)) ELSE text

\* re.sub of a pattern anchored with ^ (no re.MULTILINE): position 1 only
ReSubAnchored(pat, ng, text) == CutMatch(text, MatchAt(pat, ng, Lower(text), 1))

\* re.findall(pat, text, re.IGNORECASE): for each match the whole match (no
\* group), the group (one group) or the groups joined by ' ' (several groups,
\* as _extract_due_date joins the tuple)
RECURSIVE FindAllFrom(_, _, _, _, _)
\* a group of findall's item: '' for a group that did not take part
FoundGroup(text, caps, n) ==
    IF caps[n][1] = 0 THEN "" ELSE SubSeq(text, caps[n][1], caps[n][2])

FoundItem(ng, text, r) ==
    IF ng = 0 THEN SubSeq(text, r.start, r.end - 1)
    ELSE IF ng = 1 THEN FoundGroup(text, r.caps, 1)
    ELSE Join([n \in 1..ng |-> FoundGroup(text, r.caps, n)])

\* the items of the match r, the leftmost from i on, and of all later ones
FindAfter(pat, ng, text, low, r) ==
    IF ~r.ok THEN <<>>
    ELSE <<FoundItem(ng, text, r)>> \o FindAllFrom(pat, ng, text, low, r.end)

FindAllFrom(pat, ng, text, low, i) ==
    FindAfter(pat, ng, text, low, SearchFrom(pat, ng, low, i))

-----------------------------------------------------------------------------
(* datetime.  A datetime is a record [year, month, day, hour, minute,       *)
(* second, tz], tz being "naive" or "utc" (an aware datetime whose offset   *)
(* is +00:00); microseconds are taken to be 0.                              *)

IsLeap(y) == y % 4 = 0 /\ (y % 100 # 0 \/ y % 400 = 0)

DaysInMonth(y, m) ==
    IF m = 2 THEN (IF IsLeap(y) THEN 29 ELSE 28)
    ELSE IF m \in {4, 6, 9, 11} THEN 30
    ELSE 31

\* the days before 1 January of year y, counted from 0001-01-01
DaysBeforeYear(y) == (y - 1) * 365 + (y - 1) \div 4 - (y - 1) \div 100 + (y - 1) \div 400

RECURSIVE DaysBeforeMonth(_, _)
DaysBeforeMonth(y, m) ==
    IF m = 1 THEN 0 ELSE DaysBeforeMonth(y, m - 1) + DaysInMonth(y, m - 1)

\* date.toordinal(): 0001-01-01 is day 1
ToOrdinal(dt) == DaysBeforeYear(dt.year) + DaysBeforeMonth(dt.year, dt.month) + dt.day

\* datetime(year, month, day) raises ValueError outside these ranges
ValidDate(y, m, d) ==
    /\ y >= 1 /\ y <= 9999
    /\ m >= 1 /\ m <= 12
    /\ d >= 1 /\ d <= DaysInMonth(y, m)

\* datetime(year, month, day): midnight, naive
MakeDate(y, m, d) ==
    [year |-> y, month |-> m, day |-> d, hour |-> 0, minute |-> 0, second |-> 0,
     tz |-> "naive"]

\* the date of ordinal n, with the time of day and tz of dt
WithOrdinal(dt, n) ==
    LET y == CHOOSE yy \in (n \div 366)..(n \div 365 + 1) :
                 DaysBeforeYear(yy) < n /\ n <= DaysBeforeYear(yy + 1)
        rest == n - DaysBeforeYear(y)
        m == CHOOSE mm \in 1..12 :
                 DaysBeforeMonth(y, mm) < rest
                 /\ rest <= DaysBeforeMonth(y, mm) + DaysInMonth(y, mm)
    IN  [dt EXCEPT !.year = y, !.month = m, !.day = rest - DaysBeforeMonth(y, m)]

\* datetime.weekday(): Monday is 0
Weekday(dt) == (ToOrdinal(dt) + 6) % 7

\* dt + timedelta(days=n)
AddDays(dt, n) == WithOrdinal(dt, ToOrdinal(dt) + n)

\* dt + timedelta(minutes=n), n >= 0
AddMinutes(dt, n) ==
    LET total == dt.hour * 60 + dt.minute + n
        moved == AddDays(dt, total \div 1440)
    IN  [moved EXCEPT !.hour = (total % 1440) \div 60, !.minute = (total % 60)]

\* dt.replace(hour=0, minute=0, second=0, microsecond=0)
Midnight(dt) == [dt EXCEPT !.hour = 0, !.minute = 0, !.second = 0]

\* a < b for two datetimes of one kind: by day, then by second of the day
SecondOfDay(dt) == (dt.hour * 60 + dt.minute) * 60 + dt.second

Before(a, b) ==
    \/ ToOrdinal(a) < ToOrdinal(b)
    \/ ToOrdinal(a) = ToOrdinal(b) /\ SecondOfDay(a) < SecondOfDay(b)

\* a decimal digit's value; int(s) for a text of digits; NoneI where int(s)
\* raises ValueError (the texts at hand carry no sign and no spaces)
DigitVal(c) == CHOOSE d \in 0..9 : Ch(DigitChars, d + 1) = c

IsDigits(s) == s # "" /\ \A i \in 1..Len(s) : Ch(s, i) \in DigitSet

RECURSIVE DigitsVal(_)
DigitsVal(s) ==
    IF s = "" THEN 0
    ELSE 10 * DigitsVal(SubSeq(s, 1, Len(s) - 1)) + DigitVal(Ch(s, Len(s)))

IntOf(s) == IF IsDigits(s) THEN DigitsVal(s) ELSE NoneI

\* '%02d' % n and '%04d' % n
Pad2(n) == Ch(DigitChars, ((n \div 10) % 10) + 1) \o Ch(DigitChars, (n % 10) + 1)
Pad4(n) == Pad2(n \div 100) \o Pad2(n % 100)

\* dt.strftime("%Y-%m-%d"), for a year of four digits
StrfDate(dt) == Pad4(dt.year) \o "-" \o Pad2(dt.month) \o "-" \o Pad2(dt.day)

\* dt.isoformat() with microsecond 0
IsoFormat(dt) ==
    StrfDate(dt) \o "T" \o Pad2(dt.hour) \o ":" \o Pad2(dt.minute) \o ":" \o Pad2(dt.second)
        \o (IF dt.tz = "utc" THEN "+00:00" ELSE "")

\* s.replace("Z", "+00:00")
RECURSIVE ReplaceZ(_)
ReplaceZ(s) ==
    IF Len(s) = 0 THEN ""
    ELSE IF Len(s) = 1 THEN (IF s = "Z" THEN "+00:00" ELSE s)
    ELSE ReplaceZ(SubSeq(s, 1, Len(s) \div 2)) \o ReplaceZ(SubSeq(s, Len(s) \div 2 + 1, Len(s)))

\* datetime.fromisoformat(s): YYYY-MM-DD, then optionally one separator
\* character and HH:MM or HH:MM:SS, then optionally the offset +00:00.
\* NoneD where it raises ValueError.
FromIsoFormat(s) ==
    LET y == IntOf(Slice(s, 1, 4))
        m == IntOf(Slice(s, 6, 7))
        d == IntOf(Slice(s, 9, 10))
        date_ok == /\ Len(s) >= 10
                   /\ Ch(s, 5) = "-" /\ Ch(s, 8) = "-"
                   /\ y # NoneI /\ m # NoneI /\ d # NoneI
                   /\ ValidDate(y, m, d)
        aware == Len(s) > 10 /\ Slice(s, Len(s) - 5, Len(s)) = "+00:00"
        t == IF aware THEN Slice(s, 12, Len(s) - 6) ELSE Slice(s, 12, Len(s))
        hh == IntOf(Slice(t, 1, 2))
        mi == IntOf(Slice(t, 4, 5))
        ss == IF Len(t) = 8 THEN IntOf(Slice(t, 7, 8)) ELSE 0
        time_ok == /\ Len(t) \in {5, 8}
                   /\ Ch(t, 3) = ":"
                   /\ (Len(t) = 8 => Ch(t, 6) = ":")
                   /\ hh # NoneI /\ hh <= 23
                   /\ mi # NoneI /\ mi <= 59
                   /\ ss # NoneI /\ ss <= 59
    IN  IF ~date_ok THEN NoneD
        ELSE IF Len(s) = 10 THEN MakeDate(y, m, d)
        ELSE IF ~time_ok THEN NoneD
        ELSE [year |-> y, month |-> m, day |-> d, hour |-> hh, minute |-> mi,
              second |-> ss, tz |-> IF aware THEN "utc" ELSE "naive"]

-----------------------------------------------------------------------------
(* TaskParser: the keyword and pattern tables of __init__                   *)

\* self.priority_keywords, in the dict's (insertion) order
priority_keywords ==
    << [priority |-> "high",
        keywords |-> <<"urgent", "asap", "immediately", "critical", "emergency",
                       "high priority", "important">>],
       [priority |-> "medium",
        keywords |-> <<"soon", "medium priority", "moderate", "normal">>],
       [priority |-> "low",
        keywords |-> <<"someday", "eventually", "low priority", "when possible",
                       "nice to have">>] >>

\* self.category_keywords, in the dict's (insertion) order
category_keywords ==
    << [category |-> "work",
        keywords |-> <<"work", "office", "meeting", "project", "client", "business",
                       "professional">>],
       [category |-> "personal",
        keywords |-> <<"personal", "home", "family", "self", "health", "exercise">>],
       [category |-> "shopping",
        keywords |-> <<"buy", "purchase", "shop", "get", "pick up", "order">>],
       [category |-> "finance",
        keywords |-> <<"pay", "bill", "invoice", "money", "bank", "budget", "expense">>],
       [category |-> "learning",
        keywords |-> <<"learn", "study", "course", "tutorial", "practice", "research">>],
       [category |-> "social",
        keywords |-> <<"call", "email", "text", "message", "contact", "friend",
                       "social">>] >>

SepSet == {"/", "-"}
WeekdayNames == <<"monday", "tuesday", "wednesday", "thursday", "friday", "saturday",
                  "sunday">>
MonthAbbrs == <<"jan", "feb", "mar", "apr", "may", "jun", "jul", "aug", "sep", "oct",
                "nov", "dec">>

\* \d{1,2}[/-]\d{1,2}(?:[/-]\d{2,4})?
NumericDatePattern ==
    << Cls(DigitSet, 1, 2), Cls(SepSet, 1, 1), Cls(DigitSet, 1, 2),
       Opt(<<Cls(SepSet, 1, 1), Cls(DigitSet, 2, 4)>>) >>

\* days?|weeks?|months?
DayWeekMonthUnits ==
    Alt(<< <<Lit("day"), Opt(<<Lit("s")>>)>>,
           <<Lit("week"), Opt(<<Lit("s")>>)>>,
           <<Lit("month"), Opt(<<Lit("s")>>)>> >>)

\* self.time_patterns: each pattern with its number of capturing groups
time_patterns ==
    << [ng |-> 1,
        pat |-> <<Words(<<"by", "due", "before", "until">>), Cls(SpaceSet, 1, Many)>>
                \o Group(1, <<Alt(<< <<Cls(WordSet, 1, Many), Lit("day")>>,
                                     NumericDatePattern >>)>>)],
       [ng |-> 2,
        pat |-> <<Lit("in"), Cls(SpaceSet, 1, Many)>>
                \o Group(1, <<Cls(DigitSet, 1, Many)>>)
                \o <<Cls(SpaceSet, 1, Many)>>
                \o Group(2, <<DayWeekMonthUnits>>)],
       [ng |-> 1,
        pat |-> <<Lit("next"), Cls(SpaceSet, 1, Many)>>
                \o Group(1, <<Words(<<"week", "month">> \o WeekdayNames)>>)],
       [ng |-> 0, pat |-> <<Words(<<"tomorrow", "today">>)>>],
       [ng |-> 0, pat |-> NumericDatePattern],
       [ng |-> 0,
        pat |-> <<Words(MonthAbbrs), Cls(WordSet, 0, Many), Cls(SpaceSet, 1, Many),
                  Cls(DigitSet, 1, 2)>>] >>

-----------------------------------------------------------------------------
(* DateParser: the interpreters.  An interpreter yields a date and a        *)
(* precision; NoDate stands for a return of (None, None) and for a raised   *)
(* exception alike, since parse_date goes on to the next pattern after      *)
(* either.  An interpreter that reads self.reference_time twice takes the   *)
(* two values read (ref1 first), which differ only when another call        *)
(* assigns the attribute in between.                                        *)

NoDate == [date |-> NoneD, precision |-> NoneS]
Dated(dt, precision) == [date |-> dt, precision |-> precision]

\* weekdays[weekday]
WeekdayIndex(name) == CHOOSE i \in 0..6 : WeekdayNames[i + 1] = name

\* the difference of the two weekdays, no week added
DaysAheadUnwrapped(modifier, target_weekday, current_weekday) ==
    target_weekday - current_weekday

\* days_ahead of _parse_weekday
DaysAhead(modifier, target_weekday, current_weekday) ==
    LET days_ahead == target_weekday - current_weekday
    IN  IF modifier = "next" \/ (modifier = NoneS /\ target_weekday <= current_weekday)
        THEN (IF days_ahead <= 0 THEN days_ahead + 7 ELSE days_ahead)
        ELSE (IF days_ahead < 0 THEN days_ahead + 7 ELSE days_ahead)

\* _parse_weekday: groups is match.groups(); ref1 is read for .weekday(), ref2
\* for the sum
parse_weekday(groups, ref1, ref2) ==
    LET modifier == IF Len(groups) > 1 THEN groups[1] ELSE NoneS
        weekday == groups[Len(groups)]
    IN  Dated(Midnight(AddDays(ref2, DaysAhead(modifier, WeekdayIndex(weekday),
                                               Weekday(ref1)))), "day")

\* _parse_relative_day without the day that tomorrow adds
parse_relative_day_same_day(groups, ref1) ==
    IF groups[1] = "today" THEN Dated(Midnight(ref1), "day")
    ELSE IF groups[1] = "tomorrow" THEN Dated(Midnight(ref1), "day")
    ELSE IF groups[1] = "tonight"
    THEN Dated([ref1 EXCEPT !.hour = 20, !.minute = 0], "exact")
    ELSE NoDate

\* _parse_relative_day
parse_relative_day(groups, ref1) ==
    IF groups[1] = "today" THEN Dated(Midnight(ref1), "day")
    ELSE IF groups[1] = "tomorrow" THEN Dated(Midnight(AddDays(ref1, 1)), "day")
    ELSE IF groups[1] = "tonight"
    THEN Dated([ref1 EXCEPT !.hour = 20, !.minute = 0], "exact")
    ELSE NoDate

\* str.rstrip('s')
RStripS(s) == SubSeq(s, 1, Max({i \in 1..Len(s) : Ch(s, i) # "s"} \cup {0}))

\* _parse_relative_time with months of the calendar's longest length
parse_relative_time_long_months(groups, ref1) ==
    LET amount == IntOf(groups[1])
        unit == RStripS(groups[2])
    IN  IF Len(groups) < 2 \/ amount = NoneI THEN NoDate
        ELSE IF unit = "day"
        THEN Dated(Midnight(AddDays(ref1, amount)), "day")
        ELSE IF unit = "week"
        THEN Dated(Midnight(AddDays(ref1, 7 * amount)), "week")
        ELSE IF unit = "month"
        THEN Dated(Midnight(AddDays(ref1, amount * 31)), "month")
        ELSE IF unit = "hour"
        THEN Dated(AddMinutes(ref1, 60 * amount), "exact")
        ELSE IF unit = "minute"
        THEN Dated(AddMinutes(ref1, amount), "exact")
        ELSE NoDate

\* _parse_relative_time
parse_relative_time(groups, ref1) ==
    LET amount == IntOf(groups[1])
        unit == RStripS(groups[2])
    IN  IF Len(groups) < 2 \/ amount = NoneI THEN NoDate
        ELSE IF unit = "day"
        THEN Dated(Midnight(AddDays(ref1, amount)), "day")
        ELSE IF unit = "week"
        THEN Dated(Midnight(AddDays(ref1, 7 * amount)), "week")
        ELSE IF unit = "month"
        THEN Dated(Midnight(AddDays(ref1, amount * 30)), "month")
        ELSE IF unit = "hour"
        THEN Dated(AddMinutes(ref1, 60 * amount), "exact")
        ELSE IF unit = "minute"
        THEN Dated(AddMinutes(ref1, amount), "exact")
        ELSE NoDate

\* _parse_date_format with the two attempts exchanged: DD/MM/YYYY first
parse_date_format_day_first(groups) ==
    LET month == IntOf(groups[1])
        day == IntOf(groups[2])
        y == IntOf(groups[3])
        year == IF y < 100 THEN (IF y < 50 THEN y + 2000 ELSE y + 1900) ELSE y
    IN  IF ValidDate(year, day, month) THEN Dated(MakeDate(year, day, month), "day")
        ELSE IF ValidDate(year, month, day) THEN Dated(MakeDate(year, month, day), "day")
        ELSE NoDate

\* _parse_date_format: MM/DD/YYYY first, DD/MM/YYYY if that is no date
parse_date_format(groups) ==
    LET month == IntOf(groups[1])
        day == IntOf(groups[2])
        y == IntOf(groups[3])
        year == IF y < 100 THEN (IF y < 50 THEN y + 2000 ELSE y + 1900) ELSE y
    IN  IF ValidDate(year, month, day) THEN Dated(MakeDate(year, month, day), "day")
        ELSE IF ValidDate(year, day, month) THEN Dated(MakeDate(year, day, month), "day")
        ELSE NoDate

\* months.get(month_abbr): 0 for None
MonthIndex(abbr) ==
    IF \E i \in 1..12 : MonthAbbrs[i] = abbr
    THEN CHOOSE i \in 1..12 : MonthAbbrs[i] = abbr
    ELSE 0

\* _parse_month_day: ref1 is read for .year, ref2 for the comparison, which
\* raises TypeError between a naive and an aware datetime
parse_month_day(groups, ref1, ref2) ==
    LET day == IntOf(groups[1])
        month == MonthIndex(groups[2])
        year == ref1.year
    IN  IF month = 0 \/ ~ValidDate(year, month, day) THEN NoDate
        ELSE IF ref2.tz # "naive" THEN NoDate
        ELSE IF Before(MakeDate(year, month, day), ref2)
        THEN (IF ValidDate(year + 1, month, day)
              THEN Dated(MakeDate(year + 1, month, day), "day")
              ELSE NoDate)
        ELSE Dated(MakeDate(year, month, day), "day")

\* _parse_time: int(groups[1]) raises ValueError when the second group is
\* not a number, as it is for the pattern whose second group is (am|pm);
\* replace() raises ValueError for an hour above 23 or a minute above 59
parse_time(groups, ref1) ==
    LET hour == IntOf(groups[1])
        minute == IF groups[2] # NoneS /\ groups[2] # "" THEN IntOf(groups[2]) ELSE 0
        ampm == IF Len(groups) > 2 THEN groups[3] ELSE NoneS
        hour24 == IF ampm = "pm" /\ hour # 12 THEN hour + 12
                  ELSE IF ampm = "am" /\ hour = 12 THEN 0
                  ELSE hour
    IN  IF minute = NoneI \/ hour24 > 23 \/ minute > 59 THEN NoDate
        ELSE Dated([ref1 EXCEPT !.hour = hour24, !.minute = minute, !.second = 0],
                   "exact")

\* the units of the two relative patterns
RelativeUnits ==
    Alt(<< <<Lit("day"), Opt(<<Lit("s")>>)>>,
           <<Lit("week"), Opt(<<Lit("s")>>)>>,
           <<Lit("month"), Opt(<<Lit("s")>>)>>,
           <<Lit("hour"), Opt(<<Lit("s")>>)>>,
           <<Lit("minute"), Opt(<<Lit("s")>>)>> >>)

\* self.patterns, in the dict's (insertion) order: the pattern, its number of
\* groups and its interpreter
date_patterns ==
    << [ng |-> 2, func |-> "weekday",
        pat |-> <<WB>> \o Group(1, <<Words(<<"next", "this">>)>>)
                \o <<Cls(SpaceSet, 1, Many)>>
                \o Group(2, <<Words(WeekdayNames)>>) \o <<WB>>],
       [ng |-> 1, func |-> "weekday",
        pat |-> <<WB>> \o Group(1, <<Words(WeekdayNames)>>) \o <<WB>>],
       [ng |-> 1, func |-> "relative_day",
        pat |-> <<WB>> \o Group(1, <<Words(<<"today", "tomorrow", "tonight">>)>>)
                \o <<WB>>],
       [ng |-> 2, func |-> "relative_time",
        pat |-> <<WB, Lit("in"), Cls(SpaceSet, 1, Many)>>
                \o Group(1, <<Cls(DigitSet, 1, Many)>>)
                \o <<Cls(SpaceSet, 1, Many)>>
                \o Group(2, <<RelativeUnits>>) \o <<WB>>],
       [ng |-> 3, func |-> "relative_time",
        pat |-> <<WB>> \o Group(1, <<Cls(DigitSet, 1, Many)>>)
                \o <<Cls(SpaceSet, 1, Many)>>
                \o Group(2, <<DayWeekMonthUnits>>)
                \o <<Cls(SpaceSet, 1, Many)>>
                \o Group(3, <<Alt(<< <<Lit("from"), Cls(SpaceSet, 1, Many), Lit("now")>>,
                                     <<Lit("later")>> >>)>>)
                \o <<WB>>],
       [ng |-> 3, func |-> "date_format",
        pat |-> <<WB>> \o Group(1, <<Cls(DigitSet, 1, 2)>>) \o <<Cls(SepSet, 1, 1)>>
                \o Group(2, <<Cls(DigitSet, 1, 2)>>) \o <<Cls(SepSet, 1, 1)>>
                \o Group(3, <<Cls(DigitSet, 2, 4)>>) \o <<WB>>],
       [ng |-> 2, func |-> "month_day",
        pat |-> <<WB>> \o Group(1, <<Cls(DigitSet, 1, 2)>>)
                \o <<Cls(SpaceSet, 1, Many)>>
                \o Group(2, <<Words(MonthAbbrs)>>) \o <<WB>>],
       [ng |-> 3, func |-> "time",
        pat |-> <<WB, Lit("at"), Cls(SpaceSet, 1, Many)>>
                \o Group(1, <<Cls(DigitSet, 1, 2)>>)
                \o <<Opt(<<Lit(":")>>), Opt(Group(2, <<Cls(DigitSet, 2, 2)>>)),
                     Cls(SpaceSet, 0, Many), Opt(Group(3, <<Words(<<"am", "pm">>)>>)),
                     WB>>],
       [ng |-> 2, func |-> "time",
        pat |-> <<WB>> \o Group(1, <<Cls(DigitSet, 1, 2)>>)
                \o <<Cls(SpaceSet, 0, Many)>>
                \o Group(2, <<Words(<<"am", "pm">>)>>) \o <<WB>>] >>

\* parser_func(match, text_lower)
Interpret(func, groups, ref1, ref2) ==
    CASE func = "weekday" -> parse_weekday(groups, ref1, ref2)
      [] func = "relative_day" -> parse_relative_day(groups, ref1)
      [] func = "relative_time" -> parse_relative_time(groups, ref1)
      [] func = "date_format" -> parse_date_format(groups)
      [] func = "month_day" -> parse_month_day(groups, ref1, ref2)
      [] func = "time" -> parse_time(groups, ref1)

RECURSIVE TryPatterns(_, _, _, _)
\* the interpreter's result for the match m of the pattern p
Interpreted(p, m, text_lower, ref1, ref2) ==
    IF m.ok
    THEN Interpret(p.func, [n \in 1..p.ng |-> GroupText(text_lower, m, n)], ref1, ref2)
    ELSE NoDate

\* the result of the later patterns, or else the i-th pattern's result r
OrLaterPattern(r, text_lower, i, ref1, ref2) ==
    IF TryPatterns(text_lower, i + 1, ref1, ref2).date # NoneD
    THEN TryPatterns(text_lower, i + 1, ref1, ref2)
    ELSE r

\* the i-th pattern's result r, or else that of the later patterns
OrNextPattern(r, text_lower, i, ref1, ref2) ==
    IF r.date # NoneD THEN r ELSE TryPatterns(text_lower, i + 1, ref1, ref2)

TryPattern(p, text_lower, i, ref1, ref2) ==
    OrNextPattern(Interpreted(p, SearchFrom(p.pat, p.ng, text_lower, 1),
                              text_lower, ref1, ref2),
                  text_lower, i, ref1, ref2)

\* the loop over self.patterns: the result of the first pattern, from the
\* i-th on, that matches and whose interpreter yields a date
TryPatterns(text_lower, i, ref1, ref2) ==
    IF i > Len(date_patterns) THEN NoDate
    ELSE TryPattern(date_patterns[i], text_lower, i, ref1, ref2)

-----------------------------------------------------------------------------
(* dateutil.parser.parse(text, fuzzy=True, default=...): the library's      *)
(* reading of the texts that reach it here, which hold words and at most    *)
(* one number.  A month name sets the month, a number before "am"/"pm" the  *)
(* hour, a number of four digits the year, any other number the day;        *)
(* unknown words are skipped; a weekday name moves a date without a day to  *)
(* that weekday; a text that sets nothing, or names no valid date, raises.  *)

MonthOfWord(w) ==
    IF Len(w) >= 3 THEN MonthIndex(SubSeq(w, 1, 3)) ELSE 0

FullMonthNames ==
    <<"january", "february", "march", "april", "may", "june", "july", "august",
      "september", "october", "november", "december">>

IsMonthWord(w) ==
    \E i \in 1..12 : w = MonthAbbrs[i] \/ w = FullMonthNames[i]

IsWeekdayWord(w) ==
    \E i \in 1..7 : w = WeekdayNames[i] \/ w = SubSeq(WeekdayNames[i], 1, 3)

\* a number before "am" or "pm"
IsHourAt(words, i) ==
    IsDigits(words[i]) /\ i < Len(words) /\ words[i + 1] \in {"am", "pm"}

Hour24(hour12, ampm) ==
    IF ampm = "pm" /\ hour12 < 12 THEN hour12 + 12
    ELSE IF ampm = "am" /\ hour12 = 12 THEN 0
    ELSE hour12

WeekdayOfWord(w) ==
    WeekdayIndex(CHOOSE name \in {WeekdayNames[k] : k \in 1..7} :
                     SubSeq(name, 1, 3) = SubSeq(w, 1, 3))

\* hour, target: NoneI for a text without an hour, without a weekday to move to
DateutilMoved(timed, target) ==
    IF target = NoneI THEN timed
    ELSE AddDays(timed, (target - Weekday(timed) + 7) % 7)

DateutilTimed(built, hour) ==
    IF hour = NoneI THEN built
    ELSE [built EXCEPT !.hour = hour, !.minute = 0, !.second = 0]

DateutilFields(default, y, m, d, hour12, hour, target) ==
    IF ~ValidDate(y, m, d) \/ (hour12 # NoneI /\ (hour12 > 12 \/ hour > 23))
    THEN NoneD
    ELSE DateutilMoved(
             DateutilTimed([default EXCEPT !.year = y, !.month = m, !.day = d], hour),
             target)

\* months, wdays, hours, years, days: the places of the words of each kind
DateutilPlaces(words, default, months, wdays, hours, years, days) ==
    IF months = {} /\ wdays = {} /\ hours = {} /\ years = {} /\ days = {}
    THEN NoneD
    ELSE DateutilFields(
             default,
             IF years # {} THEN IntOf(words[Min(years)]) ELSE default.year,
             IF months # {} THEN MonthOfWord(words[Min(months)]) ELSE default.month,
             IF days # {} THEN IntOf(words[Min(days)]) ELSE default.day,
             IF hours # {} THEN IntOf(words[Min(hours)]) ELSE NoneI,
             IF hours # {}
             THEN Hour24(IntOf(words[Min(hours)]), words[Min(hours) + 1])
             ELSE NoneI,
             IF wdays # {} /\ days = {} THEN WeekdayOfWord(words[Min(wdays)]) ELSE NoneI)

DateutilWords(words, default) ==
    DateutilPlaces(
        words, default,
        {i \in 1..Len(words) : IsMonthWord(words[i])},
        {i \in 1..Len(words) : IsWeekdayWord(words[i])},
        {i \in 1..Len(words) : IsHourAt(words, i)},
        {i \in 1..Len(words) : IsDigits(words[i]) /\ Len(words[i]) = 4},
        {i \in 1..Len(words) :
            IsDigits(words[i]) /\ Len(words[i]) <= 2 /\ ~IsHourAt(words, i)})

DateutilParse(text, default) == DateutilWords(Split(Lower(text)), default)

-----------------------------------------------------------------------------
(* DateParser.parse_date                                                   *)

NullDate(raw) == [raw |-> raw, parsed |-> NoneS, precision |-> NoneS, confidence |-> 0]

\* `context and context.get("timestamp")`
HasTimestamp(context) ==
    /\ context # NoneD /\ context # EmptyDict
    /\ context.timestamp # NoneS /\ context.timestamp # ""

\* the value fromisoformat returned, or the one kept when it raised
Assigned(parsed, reference_time) == IF parsed # NoneD THEN parsed ELSE reference_time

\* self.reference_time after the `if context ...` statement: the timestamp
\* read by fromisoformat, the value before when there is none or it is
\* refused (ValueError is swallowed)
NewReferenceTime(reference_time, context) ==
    IF HasTimestamp(context)
    THEN Assigned(FromIsoFormat(ReplaceZ(context.timestamp)), reference_time)
    ELSE reference_time

\* the fallback's result with the confidence of the table's
FallbackResultAsTable(text, fallback) ==
    IF fallback # NoneD
    THEN [raw |-> text, parsed |-> StrfDate(fallback), precision |-> "day",
          confidence |-> 80]
    ELSE NullDate(text)

\* the result for what dateutil made of the text
FallbackResult(text, fallback) ==
    IF fallback # NoneD
    THEN [raw |-> text, parsed |-> StrfDate(fallback), precision |-> "day",
          confidence |-> 60]
    ELSE NullDate(text)

\* the result for what the table made of the text, r, or else dateutil's
PatternResult(text, r, ref2) ==
    IF r.date # NoneD
    THEN [raw |-> text,
          parsed |-> IF r.precision = "day" THEN StrfDate(r.date) ELSE IsoFormat(r.date),
          precision |-> r.precision,
          confidence |-> 80]
    ELSE FallbackResult(text, DateutilParse(text, ref2))

\* the rest of parse_date, for a text that is not empty: the table, then
\* dateutil; confidences in hundredths
ResolveDate(text, ref1, ref2) ==
    PatternResult(text, TryPatterns(Strip(Lower(text)), 1, ref1, ref2), ref2)

\* the interpreters read the attribute the call has just assigned
ResolveOwn(text, reference_time) == ResolveDate(text, reference_time, reference_time)

\* the text resolved against the attribute as the call found it, the
\* timestamp of the context unread
parse_date_as_found(text, reference_time, context) ==
    IF text = "" THEN NullDate(text) ELSE ResolveOwn(text, reference_time)

\* parse_date's result when self.reference_time is not assigned by another
\* call meanwhile
parse_date(text, reference_time, context) ==
    IF text = "" THEN NullDate(text)
    ELSE ResolveOwn(text, NewReferenceTime(reference_time, context))

-----------------------------------------------------------------------------
(* TaskParser._extract_title                                               *)

TitleLimit == 100

\* prefixes[0], prefixes[1]: ^(?:...)\s+
TitlePrefixes ==
    << <<Words(<<"task", "todo", "need to", "have to", "must", "should",
                 "remember to">>), Cls(SpaceSet, 1, Many)>>,
       <<Words(<<"i need to", "i have to", "i must", "i should">>),
         Cls(SpaceSet, 1, Many)>> >>

\* (each loop below stops early on an empty text, which re.sub leaves empty)
RECURSIVE RemovePrefixes(_, _)
RemovePrefixes(clean_text, i) ==
    IF i > Len(TitlePrefixes) \/ clean_text = "" THEN clean_text
    ELSE RemovePrefixes(ReSubAnchored(TitlePrefixes[i], 0, clean_text), i + 1)

\* rf'\\b{re.escape(keyword)}\\b': in a raw string \\b is a backslash and a b,
\* so the pattern is the keyword between two literal "\b" texts
PriorityIndicatorPattern(keyword) == <<Lit("\\b" \o keyword \o "\\b")>>

\* every keyword of every tier, in iteration order
AllPriorityKeywords ==
    priority_keywords[1].keywords \o priority_keywords[2].keywords
        \o priority_keywords[3].keywords

RECURSIVE RemovePriorityIndicators(_, _)
RemovePriorityIndicators(clean_text, i) ==
    IF i > Len(AllPriorityKeywords) \/ clean_text = "" THEN clean_text
    ELSE RemovePriorityIndicators(
             ReSub(PriorityIndicatorPattern(AllPriorityKeywords[i]), 0, clean_text), i + 1)

RECURSIVE RemoveTimeExpressions(_, _)
RemoveTimeExpressions(clean_text, i) ==
    IF i > Len(time_patterns) \/ clean_text = "" THEN clean_text
    ELSE RemoveTimeExpressions(
             ReSub(time_patterns[i].pat, time_patterns[i].ng, clean_text), i + 1)

\* the text after the removals and ' '.join(clean_text.split())
CleanTitleText(text) ==
    Join(Split(RemoveTimeExpressions(
                   RemovePriorityIndicators(RemovePrefixes(text, 1), 1), 1)))

\* clean_text[:100], without the fallback to the text
TitleOfCleanTextOnly(clean_text, text) == Prefix(clean_text, TitleLimit)

\* clean_text[:100] if clean_text else text[:100]
TitleOf(clean_text, text) ==
    IF clean_text # "" THEN Prefix(clean_text, TitleLimit) ELSE Prefix(text, TitleLimit)

extract_title(text) == TitleOf(CleanTitleText(text), text)

(* TaskParser._extract_description                                         *)
extract_description(text) == IF Len(text) > 100 THEN text ELSE NoneS

-----------------------------------------------------------------------------
(* TaskParser._extract_priority                                            *)

AnyKeywordIn(keywords, text) == \E j \in 1..Len(keywords) : Contains(text, keywords[j])

RECURSIVE LastTier(_, _, _)
\* the tiers checked from the last one back
LastTier(tiers, text_lower, i) ==
    IF i > Len(tiers) THEN NoneS
    ELSE IF AnyKeywordIn(tiers[Len(tiers) + 1 - i].keywords, text_lower)
    THEN tiers[Len(tiers) + 1 - i].priority
    ELSE LastTier(tiers, text_lower, i + 1)

\* for priority, keywords in self.priority_keywords.items(): the first tier, in
\* table order, one of whose keywords is in the text; NoneS when none is
RECURSIVE FirstTier(_, _, _)
FirstTier(tiers, text_lower, i) ==
    IF i > Len(tiers) THEN NoneS
    ELSE IF AnyKeywordIn(tiers[i].keywords, text_lower) THEN tiers[i].priority
    ELSE FirstTier(tiers, text_lower, i + 1)

urgency_indicators == <<"!", "urgent", "asap", "now", "immediately">>

extract_priority(text) ==
    LET text_lower == Lower(text)
        tier == FirstTier(priority_keywords, text_lower, 1)
    IN  IF tier # NoneS THEN tier
        ELSE IF AnyKeywordIn(urgency_indicators, text_lower) THEN "high"
        ELSE "medium"

-----------------------------------------------------------------------------
(* TaskParser._extract_category                                            *)

\* sum(1 for keyword in keywords if keyword in text_lower)
KeywordScore(keywords, text_lower) ==
    Cardinality({j \in 1..Len(keywords) : Contains(text_lower, keywords[j])})

\* the last key that holds the greatest score
RECURSIVE LastBestCategory(_, _, _, _)
LastBestCategory(text_lower, i, best, best_score) ==
    IF i > Len(category_keywords) THEN best
    ELSE LET score == KeywordScore(category_keywords[i].keywords, text_lower)
         IN  IF score >= best_score /\ score > 0
             THEN LastBestCategory(text_lower, i + 1, category_keywords[i].category, score)
             ELSE LastBestCategory(text_lower, i + 1, best, best_score)

\* max(category_scores, key=category_scores.get): the first key, in insertion
\* order, that holds the greatest score; only positive scores are keys
RECURSIVE BestCategory(_, _, _, _)
BestCategory(text_lower, i, best, best_score) ==
    IF i > Len(category_keywords) THEN best
    ELSE LET score == KeywordScore(category_keywords[i].keywords, text_lower)
         IN  IF score > best_score
             THEN BestCategory(text_lower, i + 1, category_keywords[i].category, score)
             ELSE BestCategory(text_lower, i + 1, best, best_score)

extract_category(text) == BestCategory(Lower(text), 1, NoneS, 0)

-----------------------------------------------------------------------------
(* TaskParser.estimate_duration_minutes                                    *)

\* title.lower() + " " + description.lower(), stripped; a description of None
\* counts as ""
FullText(parsed_task) ==
    Strip(Lower(parsed_task.title) \o " "
          \o (IF parsed_task.description = NoneS THEN "" ELSE Lower(parsed_task.description)))

\* duration_indicators, in the dict's (insertion) order
duration_indicators ==
    << <<"quick", 30>>, <<"brief", 45>>, <<"short", 60>>,
       <<"meeting", 60>>, <<"call", 45>>, <<"email", 20>>,
       <<"research", 180>>, <<"analyze", 120>>, <<"study", 240>>,
       <<"write", 90>>, <<"create", 120>>, <<"design", 180>>,
       <<"review", 45>>, <<"check", 30>>, <<"update", 45>>,
       <<"plan", 75>>, <<"organize", 90>>, <<"setup", 75>>,
       <<"install", 60>>, <<"configure", 90>>, <<"implement", 240>>,
       <<"project", 480>>, <<"presentation", 150>>, <<"report", 240>> >>

\* the minutes of the keywords found from the i-th on, and their sum
FoundMinutes(full_text, i) ==
    {j \in i..Len(duration_indicators) : Contains(full_text, duration_indicators[j][1])}

RECURSIVE SumMinutes(_)
SumMinutes(found) ==
    IF found = {} THEN 0
    ELSE LET j == CHOOSE k \in found : TRUE
         IN  duration_indicators[j][2] + SumMinutes(found \ {j})

\* the loop with the arithmetic mean of the minutes of all keywords found
DurationCluesMean(full_text, i, estimated_duration) ==
    IF FoundMinutes(full_text, i) = {} THEN estimated_duration
    ELSE SumMinutes(FoundMinutes(full_text, i)) \div Cardinality(FoundMinutes(full_text, i))

\* the loop over duration_indicators.items(): the first keyword found sets the
\* estimate, each further one replaces it by (estimate + minutes) // 2
RECURSIVE DurationClues(_, _, _)
DurationClues(full_text, i, estimated_duration) ==
    IF i > Len(duration_indicators) THEN estimated_duration
    ELSE IF Contains(full_text, duration_indicators[i][1])
         THEN DurationClues(full_text, i + 1,
                  IF estimated_duration = NoneI THEN duration_indicators[i][2]
                  ELSE (estimated_duration + duration_indicators[i][2]) \div 2)
         ELSE DurationClues(full_text, i + 1, estimated_duration)

\* int(n * t / 10) for the factors 1.2, 0.8, 1.3 and 1.5: on the integers below
\* 2000 the float product truncates to the exact quotient
IntTimes(n, tenths) == (n * tenths) \div 10

\* int(n * 0.7): the float product 90 * 0.7 is 62.99999999999999, all other
\* bases of the fallback (45, 60, 150) truncate to the exact quotient
IntTimes07(n) == IF n = 90 THEN 62 ELSE (n * 7) \div 10

Max2(a, b) == IF a >= b THEN a ELSE b

\* the `if estimated_duration:` branch: the priority factor, then the length
AdjustFoundDuration(estimated_duration, priority, word_count) ==
    LET by_priority ==
            IF priority = "high" THEN IntTimes(estimated_duration, 12)
            ELSE IF priority = "low" THEN IntTimes(estimated_duration, 8)
            ELSE estimated_duration
    IN  IF word_count > 20 THEN IntTimes(by_priority, 13)
        ELSE IF word_count < 5 THEN Max2(30, IntTimes(by_priority, 8))
        ELSE by_priority

\* the `else:` branch: a base by word count, then the priority factor
FallbackDuration(priority, word_count) ==
    LET base == IF word_count < 5 THEN 45
                ELSE IF word_count < 10 THEN 60
                ELSE IF word_count < 20 THEN 90
                ELSE 150
    IN  IF priority = "high" THEN IntTimes(base, 15)
        ELSE IF priority = "low" THEN Max2(30, IntTimes07(base))
        ELSE base

estimate_duration_minutes(parsed_task) ==
    LET full_text == FullText(parsed_task)
        word_count == WordCount(full_text)
        estimated_duration == DurationClues(full_text, 1, NoneI)
    IN  IF estimated_duration # NoneI /\ estimated_duration # 0
        THEN AdjustFoundDuration(estimated_duration, parsed_task.priority, word_count)
        ELSE FallbackDuration(parsed_task.priority, word_count)

-----------------------------------------------------------------------------
(* TaskParser.generate_suggestions.  A suggestion is a record               *)
(* [suggestion_type, confidence, metadata]; its two message texts are       *)
(* constants of the rule that emits it and are left out.  Confidences are   *)
(* in hundredths (0.8 is 80).                                               *)

\* the dataclass without its __post_init__
TaskSuggestionAsGiven(suggestion_type, confidence, metadata) ==
    [suggestion_type |-> suggestion_type, confidence |-> confidence, metadata |-> metadata]

\* TaskSuggestion.__post_init__: a metadata of None becomes {}
TaskSuggestion(suggestion_type, confidence, metadata) ==
    [suggestion_type |-> suggestion_type,
     confidence |-> confidence,
     metadata |-> IF metadata = NoneD THEN EmptyDict ELSE metadata]

\* add_suggestion: metadata=metadata or {}
add_suggestion(suggestions, suggestion_type, confidence, metadata) ==
    Append(suggestions,
           TaskSuggestion(suggestion_type, confidence,
                          IF metadata = NoneD \/ metadata = EmptyDict THEN EmptyDict
                          ELSE metadata))

\* [w for w in words if w in text], in the list's order
RECURSIVE FoundIn(_, _)
FoundIn(words, text) ==
    IF words = <<>> THEN <<>>
    ELSE (IF Contains(text, Head(words)) THEN <<Head(words)>> ELSE <<>>)
             \o FoundIn(Tail(words), text)

\* sum(1 for word in words if word in text)
CountIn(words, text) == Len(FoundIn(words, text))

high_priority_signals == <<"urgent", "asap", "immediately", "critical", "emergency", "now">>
low_priority_signals == <<"someday", "eventually", "when possible", "nice to have", "optional">>
vague_indicators == <<"should", "need to", "have to", "must", "important">>

\* the urgency suggestion made whatever the priority is
SuggestPriorityForAnyPriority(suggestions, parsed_task, full_text) ==
    LET high_signals == CountIn(high_priority_signals, full_text)
        low_signals == CountIn(low_priority_signals, full_text)
    IN  IF high_signals > 0
        THEN add_suggestion(suggestions, "priority_clarification", 80, NoneD)
        ELSE IF parsed_task.priority = "medium" /\ high_signals = 0 /\ low_signals = 0
                /\ ~AnyKeywordIn(vague_indicators, full_text)
                /\ WordCount(full_text) < 5
        THEN add_suggestion(suggestions, "priority_clarification", 50, NoneD)
        ELSE suggestions

\* 1. priority clarification
SuggestPriority(suggestions, parsed_task, full_text) ==
    LET high_signals == CountIn(high_priority_signals, full_text)
        low_signals == CountIn(low_priority_signals, full_text)
    IN  IF high_signals > 0 /\ parsed_task.priority = "medium"
        THEN add_suggestion(suggestions, "priority_clarification", 80, NoneD)
        ELSE IF parsed_task.priority = "medium" /\ high_signals = 0 /\ low_signals = 0
                /\ ~AnyKeywordIn(vague_indicators, full_text)
                /\ WordCount(full_text) < 5
        THEN add_suggestion(suggestions, "priority_clarification", 50, NoneD)
        ELSE suggestions

time_sensitive_words ==
    <<"deadline", "by", "before", "until", "due", "meeting", "appointment", "event">>
urgency_words == <<"urgent", "asap", "soon", "quickly", "immediately">>

\* `not parsed_task.due_date`: None or an empty dict
NoDueDate(parsed_task) == parsed_task.due_date = NoneD \/ parsed_task.due_date = EmptyDict

\* 2. with `if` for the `elif`: both variants for a high-priority task with a
\* keyword
SuggestDueDateBothVariants(suggestions, parsed_task, full_text) ==
    IF ~NoDueDate(parsed_task) THEN suggestions
    ELSE LET keyword ==
                 IF AnyKeywordIn(time_sensitive_words \o urgency_words, full_text)
                 THEN add_suggestion(suggestions, "due_date_add", 80, NoneD)
                 ELSE suggestions
         IN  IF parsed_task.priority = "high"
             THEN add_suggestion(keyword, "due_date_add", 70, NoneD)
             ELSE keyword

\* 2. due date addition
SuggestDueDate(suggestions, parsed_task, full_text) ==
    IF ~NoDueDate(parsed_task) THEN suggestions
    ELSE IF AnyKeywordIn(time_sensitive_words \o urgency_words, full_text)
    THEN add_suggestion(suggestions, "due_date_add", 80, NoneD)
    ELSE IF parsed_task.priority = "high"
    THEN add_suggestion(suggestions, "due_date_add", 70, NoneD)
    ELSE suggestions

vague_verbs == <<"do", "handle", "deal with", "work on", "check", "look at">>

\* 3. description improvement; `not parsed_task.description`: None or ""
SuggestDescription(suggestions, parsed_task, title) ==
    IF Len(parsed_task.title) < 15
    THEN add_suggestion(suggestions, "description_improve", 70,
             [title_length |-> Len(parsed_task.title),
              improvement_type |-> "length",
              suggested_min_length |-> 20])
    ELSE IF (parsed_task.description = NoneS \/ parsed_task.description = "")
            /\ Len(parsed_task.title) < 25
            /\ FoundIn(vague_verbs, title) # <<>>
    THEN add_suggestion(suggestions, "description_improve", 80,
             [vague_verbs_found |-> FoundIn(vague_verbs, title),
              improvement_type |-> "specificity",
              suggestion_examples |-> <<"What specific outcome do you want?",
                                        "What are the concrete steps?">>])
    ELSE suggestions

complex_indicators ==
    <<"project", "plan", "organize", "setup", "implement", "research", "analyze">>
action_words == {"and", "&", "then", "also", "plus"}

\* 4. task breakdown
SuggestBreakdown(suggestions, full_text) ==
    LET words == Split(full_text)
        multiple_actions == Cardinality({i \in 1..Len(words) : words[i] \in action_words})
    IN  IF (AnyKeywordIn(complex_indicators, full_text) \/ multiple_actions >= 2)
           /\ Len(words) > 8
        THEN add_suggestion(suggestions, "breakdown", 70,
                 [complexity_indicators |-> FoundIn(complex_indicators, full_text),
                  multiple_actions_count |-> multiple_actions,
                  word_count |-> Len(words)])
        ELSE suggestions

\* `parsed_task.due_date and parsed_task.due_date.get('parsed')`
HasParsedDueDate(parsed_task) ==
    /\ ~NoDueDate(parsed_task)
    /\ parsed_task.due_date.parsed # NoneS
    /\ parsed_task.due_date.parsed # ""

HasReminder(suggestions) ==
    \E i \in 1..Len(suggestions) : suggestions[i].suggestion_type = "reminder"

\* 5. the reminder for a due date; reminder_added is set with it
DueDateReminderAdded(suggestions, parsed_task) ==
    HasParsedDueDate(parsed_task) /\ ~HasReminder(suggestions)

\* the priority reminder given to every high-priority task, due date or not
SuggestReminderForEveryHigh(suggestions, parsed_task) ==
    IF parsed_task.priority = "high"
    THEN add_suggestion(
             IF DueDateReminderAdded(suggestions, parsed_task)
             THEN add_suggestion(suggestions, "reminder", 60,
                      [suggested_reminder_days_before |-> 1,
                       reminder_type |-> "due_date_based"])
             ELSE suggestions,
             "reminder", 50,
             [suggested_reminder_frequency |-> "daily", reminder_type |-> "priority_based"])
    ELSE IF DueDateReminderAdded(suggestions, parsed_task)
    THEN add_suggestion(suggestions, "reminder", 60,
             [suggested_reminder_days_before |-> 1, reminder_type |-> "due_date_based"])
    ELSE suggestions

\* 5. reminder suggestions: by due date, else by priority
SuggestReminder(suggestions, parsed_task) ==
    LET reminder_added == DueDateReminderAdded(suggestions, parsed_task)
    IN  IF reminder_added
        THEN add_suggestion(suggestions, "reminder", 60,
                 [suggested_reminder_days_before |-> 1,
                  reminder_type |-> "due_date_based"])
        ELSE IF parsed_task.priority = "high" /\ NoDueDate(parsed_task)
        THEN add_suggestion(suggestions, "reminder", 50,
                 [suggested_reminder_frequency |-> "daily",
                  reminder_type |-> "priority_based"])
        ELSE suggestions

delegation_keywords ==
    <<"team", "meeting", "discuss", "collaborate", "share", "delegate", "assign">>

\* 6. delegation opportunities
SuggestDelegation(suggestions, full_text) ==
    LET matched_keywords == FoundIn(delegation_keywords, full_text)
    IN  IF matched_keywords # <<>>
        THEN add_suggestion(suggestions, "delegation", 50,
                 [delegation_indicators |-> matched_keywords,
                  suggested_delegation_type |->
                      IF \E i \in 1..Len(matched_keywords) : matched_keywords[i] = "collaborate"
                      THEN "collaborative" ELSE "assignable",
                  teamwork_complexity |->
                      IF Len(matched_keywords) > 2 THEN "high" ELSE "medium"])
        ELSE suggestions

generate_suggestions(parsed_task) ==
    LET title == Lower(parsed_task.title)
        full_text == FullText(parsed_task)
        s1 == SuggestPriority(<<>>, parsed_task, full_text)
        s2 == SuggestDueDate(s1, parsed_task, full_text)
        s3 == SuggestDescription(s2, parsed_task, title)
        s4 == SuggestBreakdown(s3, full_text)
        s5 == SuggestReminder(s4, parsed_task)
    IN  SuggestDelegation(s5, full_text)

-----------------------------------------------------------------------------
(* spaCy's annotation of a text, as far as parse_task reads it: doc.ents    *)
(* (each a text and a label_) and the number of tokens whose pos_ is VERB.  *)
(* NlpError stands for a call of self.nlp that raises.                      *)

Doc(ents, verbs) == [ents |-> ents, verbs |-> verbs]
Ent(text, label_) == [text |-> text, label_ |-> label_]
NlpError == [error |-> "nlp"]

-----------------------------------------------------------------------------
(* TaskParser._extract_due_date                                            *)

\* [ent.text for ent in doc.ents if ent.label_ in ["DATE", "TIME"]]
RECURSIVE EntityExpressions(_)
EntityExpressions(ents) ==
    IF ents = <<>> THEN <<>>
    ELSE (IF Head(ents).label_ \in {"DATE", "TIME"} THEN <<Head(ents).text>> ELSE <<>>)
             \o EntityExpressions(Tail(ents))

\* re.findall for each of self.time_patterns, from the i-th on
RECURSIVE PatternExpressions(_, _)
PatternExpressions(text, i) ==
    IF i > Len(time_patterns) THEN <<>>
    ELSE FindAllFrom(time_patterns[i].pat, time_patterns[i].ng, text, Lower(text), 1)
             \o PatternExpressions(text, i + 1)

date_words ==
    <<"tomorrow", "today", "tonight", "next week", "next month", "friday", "saturday",
      "sunday", "monday", "tuesday", "wednesday", "thursday">>

\* date_expressions, in the order the three sources append to it
DateExpressions(text, doc) ==
    EntityExpressions(doc.ents) \o PatternExpressions(text, 1)
        \o FoundIn(date_words, Lower(text))

\* best_confidence, which is assigned together with best_result
BestConfidence(best_result) == IF best_result = NoneD THEN 0 ELSE best_result.confidence

\* the loop's body with `>=` for `>`: the last of equal confidence is kept
BetterOrLast(result, best_result) ==
    IF result.confidence >= BestConfidence(best_result) /\ result.parsed # NoneS
    THEN result
    ELSE best_result

\* best_result after the loop's body for `result`
Better(result, best_result) ==
    IF result.confidence > BestConfidence(best_result) /\ result.parsed # NoneS
    THEN result
    ELSE best_result

\* the loop over date_expressions from the i-th on: a result replaces the best
\* one when its confidence is greater and its parsed value is not None
RECURSIVE BestResult(_, _, _, _, _)
BestResult(expressions, i, reference_time, context, best_result) ==
    IF i > Len(expressions) THEN best_result
    ELSE BestResult(expressions, i + 1, reference_time, context,
                    Better(parse_date(expressions[i], reference_time, context),
                           best_result))

\* best_result, or the null result of the first expression when it is None
NullResultOr(best_result, expressions) ==
    IF best_result = NoneD /\ expressions # <<>> THEN NullDate(expressions[1])
    ELSE best_result

\* _extract_due_date returning a result without a date when none resolves
extract_due_date_unresolved(text, doc, reference_time, context) ==
    NullResultOr(BestResult(DateExpressions(text, doc), 1, reference_time, context, NoneD),
                 DateExpressions(text, doc))

extract_due_date(text, doc, reference_time, context) ==
    BestResult(DateExpressions(text, doc), 1, reference_time, context, NoneD)

\* self.date_parser.reference_time after _extract_due_date: every parse_date
\* of a text that is not empty assigns it from the same context
ReferenceTimeAfter(expressions, reference_time, context) ==
    IF \E i \in 1..Len(expressions) : expressions[i] # ""
    THEN NewReferenceTime(reference_time, context)
    ELSE reference_time

-----------------------------------------------------------------------------
(* TaskParser._calculate_confidence, in units of 1/4000: the four factors   *)
(* are min(len/50, 1) * 0.2, min(entities/3, 1) * 0.3, matched/16 * 0.3 and *)
(* min(verbs/2, 1) * 0.2.                                                   *)

ConfidenceEntities(doc) ==
    Cardinality({i \in 1..Len(doc.ents) :
                    doc.ents[i].label_ \in {"DATE", "TIME", "PERSON", "ORG"}})

calculate_confidence(text, doc) ==
    LET length_factor == Min({Len(text), 50}) * 16
        entity_factor == Min({ConfidenceEntities(doc), 3}) * 400
        keyword_factor == CountIn(AllPriorityKeywords, Lower(text)) * 75
        structure_factor == Min({doc.verbs, 2}) * 400
    IN  Min({length_factor + entity_factor + keyword_factor + structure_factor, 4000})

-----------------------------------------------------------------------------
(* TaskParser.parse_task.  A call's outcome is a record: raised tells       *)
(* whether an exception left the call, value is what it returned.           *)

Returned(value) == [raised |-> FALSE, value |-> value]
Raised(exception) == [raised |-> TRUE, value |-> exception]

ParsedTask(title, description, priority, due_date, category, confidence, raw_input) ==
    [title |-> title, description |-> description, priority |-> priority,
     due_date |-> due_date, category |-> category, confidence |-> confidence,
     estimated_duration_minutes |-> NoneI, raw_input |-> raw_input]

\* `not input_text` alone
IsEmpty(input_text) == input_text = ""

\* `not input_text or not input_text.strip()`
IsBlank(input_text) == Strip(input_text) = ""

\* the components extracted from the stripped text and its annotation
ExtractComponents(input_text, doc, reference_time, context) ==
    ParsedTask(extract_title(input_text),
               extract_description(input_text),
               extract_priority(input_text),
               extract_due_date(input_text, doc, reference_time, context),
               extract_category(input_text),
               calculate_confidence(input_text, doc),
               input_text)

\* parsed_task.estimated_duration_minutes = self.estimate_duration_minutes(parsed_task)
WithDuration(parsed_task) ==
    [parsed_task EXCEPT !.estimated_duration_minutes = estimate_duration_minutes(parsed_task)]

parse_task(raw_text, doc, reference_time, context) ==
    IF IsBlank(raw_text)
    THEN Returned(ParsedTask("", NoneS, "medium", NoneD, NoneS, 0, raw_text))
    ELSE IF doc = NlpError THEN Raised("Exception")
    ELSE Returned(WithDuration(ExtractComponents(Strip(raw_text), doc, reference_time,
                                                 context)))

\* self.date_parser.reference_time after parse_task
parse_task_reference_time(raw_text, doc, reference_time, context) ==
    IF IsBlank(raw_text) \/ doc = NlpError THEN reference_time
    ELSE ReferenceTimeAfter(DateExpressions(Strip(raw_text), doc), reference_time, context)

\* parse_date's assignment to self.reference_time: none for an empty text
parse_date_reference_time(text, reference_time, context) ==
    IF text = "" THEN reference_time ELSE NewReferenceTime(reference_time, context)

-----------------------------------------------------------------------------
(* The parse-task route and the OpenAI client behind it.  Confidences are   *)
(* in units of 1/4000, as in calculate_confidence.                          *)

\* dict.get(key, default) on a JSON object
DictGet(dict, key, default) == IF key \in DOMAIN dict THEN dict[key] ELSE default

\* OpenAIClient._fallback_analysis
fallback_analysis(input_text) ==
    [title |-> Prefix(input_text, 100),
     description |-> IF Len(input_text) > 50 THEN input_text ELSE NoneS,
     priority |-> IF AnyKeywordIn(<<"urgent", "asap", "immediately">>, Lower(input_text))
                  THEN "high" ELSE "medium",
     category |-> NoneS,
     estimated_duration |-> NoneI,
     due_date_suggestion |-> NoneS,
     confidence |-> 1200,
     reasoning |-> "Fallback analysis - OpenAI not available"]

\* OpenAIClient.analyze_task for an enabled client: reply is what the API call
\* and json.loads come to: an API error, a body that is no JSON, or a JSON
\* object.  Every failure is answered with the fallback analysis.
analyze_task(input_text, reply) ==
    IF reply.kind # "json" THEN fallback_analysis(input_text)
    ELSE [title |-> DictGet(reply.result, "title", Prefix(input_text, 100)),
          description |-> DictGet(reply.result, "description", NoneS),
          priority |-> DictGet(reply.result, "priority", "medium"),
          category |-> DictGet(reply.result, "category", NoneS),
          estimated_duration |-> DictGet(reply.result, "estimated_duration", NoneI),
          due_date_suggestion |-> DictGet(reply.result, "due_date_suggestion", NoneS),
          confidence |-> DictGet(reply.result, "confidence", 2000),
          reasoning |-> DictGet(reply.result, "reasoning", "AI analysis completed")]

\* the attributes of openai_analysis the route reads, in the order it reads them
route_attributes ==
    <<"title", "description", "priority", "category", "due_date",
      "estimated_duration_minutes", "confidence">>

\* result["parsedTask"] taken from the local ParsedTask
LocalFields(parsed_task) ==
    [title |-> parsed_task.title,
     description |-> parsed_task.description,
     priority |-> parsed_task.priority,
     category |-> parsed_task.category,
     dueDate |-> parsed_task.due_date,
     estimatedDurationMinutes |-> parsed_task.estimated_duration_minutes,
     confidence |-> parsed_task.confidence]

\* result["parsedTask"]: `openai_analysis.<attr> if openai_analysis else
\* parsed_task.<attr>`; an attribute the analysis object lacks raises
\* AttributeError
combine_results(openai_analysis, parsed_task) ==
    IF openai_analysis = NoneD THEN Returned(LocalFields(parsed_task))
    ELSE IF \E i \in 1..Len(route_attributes) :
                route_attributes[i] \notin DOMAIN openai_analysis
    THEN Raised("AttributeError")
    ELSE Returned(
             [title |-> openai_analysis.title,
              description |-> openai_analysis.description,
              priority |-> openai_analysis.priority,
              category |-> openai_analysis.category,
              dueDate |-> openai_analysis.due_date,
              estimatedDurationMinutes |->
                  IF openai_analysis.estimated_duration_minutes \notin {NoneI, 0}
                  THEN openai_analysis.estimated_duration_minutes
                  ELSE parsed_task.estimated_duration_minutes,
              confidence |-> openai_analysis.confidence])

\* the entries appended for task_parser.generate_suggestions(parsed_task)
SuggestionEntries(found) ==
    [i \in 1..Len(found) |->
        [id |-> i, source |-> "nlp_rules", type |-> found[i].suggestion_type,
         confidence |-> found[i].confidence, metadata |-> found[i].metadata]]

local_suggestions(parsed_task) == SuggestionEntries(generate_suggestions(parsed_task))

JSONResponse(body, status) == [status |-> status, body |-> body]

\* the handler of POST /ai/parse-task for an authenticated request whose body
\* passed validation.  The call of openai_client.generate_suggestions lies
\* behind combine_results, which raises whenever the client is enabled.
\* openai_analysis: None unless `openai_client and openai_client.enabled`
OpenAIAnalysis(request) ==
    IF request.client_enabled THEN analyze_task(request.input, request.reply)
    ELSE NoneD

\* the response once result["parsedTask"] is built or has raised
RespondCombined(combined, parsed_task) ==
    IF combined.raised
    THEN JSONResponse([error |-> "Task parsing failed"], 500)
    ELSE JSONResponse([parsedTask |-> combined.value,
                       suggestions |-> local_suggestions(parsed_task),
                       alternatives |-> <<>>], 200)

\* the response once task_parser.parse_task has returned or raised
RespondParsed(request, parsed) ==
    IF parsed.raised
    THEN JSONResponse([error |-> "Task parsing failed"], 500)
    ELSE RespondCombined(combine_results(OpenAIAnalysis(request), parsed.value),
                         parsed.value)

parse_task_route(request, reference_time) ==
    IF ~request.features_enabled
    THEN JSONResponse([error |-> "AI features are disabled"], 503)
    ELSE RespondParsed(request,
                       parse_task(request.input, request.doc, reference_time,
                                  request.context))

\* task_parser.date_parser.reference_time after the handler
parse_task_route_reference_time(request, reference_time) ==
    IF ~request.features_enabled THEN reference_time
    ELSE parse_task_reference_time(request.input, request.doc, reference_time,
                                   request.context)

-----------------------------------------------------------------------------
(* The state machine.  routes/ai_routes.py builds one TaskParser, hence one *)
(* DateParser, when the module is loaded; every request is served by it.    *)
(*   now             the clock read by datetime.utcnow()                    *)
(*   reference_time  task_parser.date_parser.reference_time                 *)
(*   call            the operation last called, with its arguments and the  *)
(*                   clock at the call                                      *)
(*   outcome         what that call returned or raised                      *)
(*   threads         the callers of parse_task that run concurrently        *)

VARIABLES now, reference_time, call, outcome, threads

vars == <<now, reference_time, call, outcome, threads>>

\* the instant at which the parser is constructed (a Wednesday)
ConstructedAt ==
    [year |-> 2024, month |-> 1, day |-> 10, hour |-> 9, minute |-> 0, second |-> 0,
     tz |-> "naive"]

NoCall == [op |-> "none"]
Pending == [pending |-> TRUE]
Done == outcome # Pending

Callers == {"A", "B"}
Idle == [pc |-> "idle"]
NoThreads == [t \in Callers |-> Idle]

\* the clock advances by at most MaxTicks days
MaxTicks == 2

\* the longest padding of an input text, in repetitions of PadPhrase
MaxRepeat == 6

PadPhrase == " and review the plan"

RECURSIVE Repeat(_, _)
Repeat(w, k) == IF k = 0 THEN "" ELSE w \o Repeat(w, k - 1)

\* contexts of a request: none, an ISO timestamp, one that is no timestamp
EarlierTimestamp == [timestamp |-> "2023-11-20T08:30:00"]
LaterTimestamp == [timestamp |-> "2024-03-05T10:15:00"]
MalformedTimestamp == [timestamp |-> "last tuesday-ish"]
Contexts == {NoneD, EarlierTimestamp, LaterTimestamp, MalformedTimestamp}

\* `context and context.get("timestamp")` holds, and fromisoformat refuses it
IsMalformed(context) ==
    HasTimestamp(context) /\ FromIsoFormat(ReplaceZ(context.timestamp)) = NoneD

\* what self.nlp may return for a text: no entities, or one DATE entity for a
\* date word of the text, with or without a verb; or it raises
Annotations(text) ==
    {Doc(<<>>, 0), Doc(<<>>, 1), NlpError}
        \cup {Doc(<<Ent(w, "DATE")>>, 1) :
                 w \in {date_words[i] : i \in {j \in 1..Len(date_words) :
                                                  Contains(Lower(text), date_words[j])}}}

-----------------------------------------------------------------------------
(* Spec: the parser instance over time, one call after another.             *)

DateTexts == {"today", "tomorrow", "friday", "in 3 days"}
TaskTexts == {"call bob tomorrow", "buy milk"}

Init ==
    /\ now = ConstructedAt
    /\ reference_time = ConstructedAt
    /\ call = NoCall
    /\ outcome = Pending
    /\ threads = NoThreads

\* time passes between two calls
Tick ==
    /\ ToOrdinal(now) - ToOrdinal(ConstructedAt) < MaxTicks
    /\ now' = AddDays(now, 1)
    /\ UNCHANGED <<reference_time, call, outcome, threads>>

\* date_parser.parse_date(text, context); the call records the clock and the
\* parser's reference_time at its start
ParseDateCall ==
    \E text \in DateTexts, context \in Contexts :
        /\ call' = [op |-> "parse_date", text |-> text, context |-> context, at |-> now,
                    ref |-> reference_time]
        /\ outcome' = Returned(parse_date(text, reference_time, context))
        /\ reference_time' = parse_date_reference_time(text, reference_time, context)
        /\ UNCHANGED <<now, threads>>

\* task_parser.parse_task(input_text, context)
ParseTaskCall ==
    \E text \in TaskTexts, context \in Contexts :
        \E doc \in {Doc(<<>>, 1), NlpError} :
            /\ call' = [op |-> "parse_task", text |-> text, doc |-> doc,
                        context |-> context, at |-> now, ref |-> reference_time]
            /\ outcome' = parse_task(text, doc, reference_time, context)
            /\ reference_time' = parse_task_reference_time(text, doc, reference_time, context)
            /\ UNCHANGED <<now, threads>>

Next == Tick \/ ParseDateCall \/ ParseTaskCall

Spec == Init /\ [][Next]_vars

-----------------------------------------------------------------------------
(* SpecParse: parse_task as a function of its input.  Init draws the text   *)
(* and what self.nlp makes of it; the action applies parse_task once.       *)

TextPrefixes == {"", "I need to "}

\* texts whose one date expression is "in N days", "in N weeks" or "in N months"
RelativeStems ==
    {[text |-> "finish report in 2 weeks", expression |-> "in 2 weeks"],
     [text |-> "pay rent in 3 days", expression |-> "in 3 days"],
     [text |-> "renew the pass in 1 month", expression |-> "in 1 month"]}

TextStems ==
    {"call bob", "tomorrow", "send an email to bob smith", "buy milk by friday",
     "URGENT: fix the report someday", "finish this now", "ship it!",
     "normal cleanup eventually", "low priority cleanup", "by friday soon",
     "call the client", "email and call the bank", "study at home",
     "call bob tomorrow or friday", "pay rent march 5 or friday",
     "review budget next week"}
        \cup {stem.text : stem \in RelativeStems}

TextPads == {"", Repeat(PadPhrase, MaxRepeat)}

InputTexts ==
    {prefix \o stem \o pad : prefix \in TextPrefixes, stem \in TextStems, pad \in TextPads}
        \cup {"", " \t "}

ParseTaskInputs ==
    UNION {{[op |-> "parse_task", text |-> text, doc |-> doc, context |-> NoneD,
             at |-> ConstructedAt] : doc \in Annotations(text)} : text \in InputTexts}

InitParse ==
    /\ now = ConstructedAt
    /\ reference_time = ConstructedAt
    /\ call \in ParseTaskInputs
    /\ outcome = Pending
    /\ threads = NoThreads

\* task_parser.parse_task(call.text, call.context)
ParseInput ==
    /\ call.op = "parse_task"
    /\ outcome = Pending
    /\ outcome' = parse_task(call.text, call.doc, reference_time, call.context)
    /\ reference_time' = parse_task_reference_time(call.text, call.doc, reference_time,
                                                   call.context)
    /\ UNCHANGED <<now, call, threads>>

NextParse == ParseInput

SpecParse == InitParse /\ [][NextParse]_vars

-----------------------------------------------------------------------------
(* SpecTask: estimate_duration_minutes and generate_suggestions as          *)
(* functions of a ParsedTask.  Init draws the task; each action applies one *)
(* of the two once.                                                         *)

TaskTitles ==
    {"send an email to bob smith", "check the mail", "call", "do it",
     "urgent team meeting about the project plan",
     "write the report and review the budget then plan and organize the files",
     "tidy the garage shelves this week", "must call bob", "tidy up someday",
     "urgent meeting"}

TaskDescriptions == {NoneS, "quick note", "details:" \o Repeat(PadPhrase, MaxRepeat)}

TaskPriorities == {"low", "medium", "high"}

\* no due date, and the two shapes of a parse_date result
TaskDueDates ==
    {NoneD, NullDate("whenever"),
     [raw |-> "tomorrow", parsed |-> "2024-01-11", precision |-> "day", confidence |-> 80]}

ParsedTasks ==
    {ParsedTask(title, description, priority, due_date, NoneS, 0, title) :
        title \in TaskTitles, description \in TaskDescriptions,
        priority \in TaskPriorities, due_date \in TaskDueDates}

InitTask ==
    /\ now = ConstructedAt
    /\ reference_time = ConstructedAt
    /\ call \in {[op |-> "task", parsed_task |-> parsed_task] : parsed_task \in ParsedTasks}
    /\ outcome = Pending
    /\ threads = NoThreads

\* task_parser.estimate_duration_minutes(call.parsed_task)
EstimateDuration ==
    /\ call.op = "task"
    /\ call' = [call EXCEPT !.op = "estimate_duration_minutes"]
    /\ outcome' = Returned(estimate_duration_minutes(call.parsed_task))
    /\ UNCHANGED <<now, reference_time, threads>>

\* task_parser.generate_suggestions(call.parsed_task)
GenerateSuggestions ==
    /\ call.op = "task"
    /\ call' = [call EXCEPT !.op = "generate_suggestions"]
    /\ outcome' = Returned(generate_suggestions(call.parsed_task))
    /\ UNCHANGED <<now, reference_time, threads>>

\* TaskSuggestion(suggestion_type, ..., metadata), metadata of None standing
\* for the argument left out as well
ConstructSuggestion ==
    /\ call.op = "task"
    /\ \E suggestion_type \in {"reminder", "breakdown"},
          metadata \in {NoneD, EmptyDict, [reminder_type |-> "priority_based"]} :
           /\ call' = [op |-> "TaskSuggestion", suggestion_type |-> suggestion_type,
                       metadata |-> metadata]
           /\ outcome' = Returned(TaskSuggestion(suggestion_type, 50, metadata))
    /\ UNCHANGED <<now, reference_time, threads>>

NextTask == EstimateDuration \/ GenerateSuggestions \/ ConstructSuggestion

SpecTask == InitTask /\ [][NextTask]_vars

-----------------------------------------------------------------------------
(* SpecConcurrent: two callers in parse_task on the one parser at a time,   *)
(* each with its own context timestamp.  A caller's steps are the accesses  *)
(* to self.reference_time of each parse_date that _extract_due_date makes:  *)
(* the assignment, then the interpreter's reads.  A thread may be           *)
(* preempted between any two of them.                                       *)

ConcurrentTexts == {"call bob friday", "pay rent tomorrow"}

CallerContext(t) == IF t = "A" THEN EarlierTimestamp ELSE LaterTimestamp

Called(t, text) ==
    [pc |-> "called", text |-> text, doc |-> Doc(<<>>, 1), context |-> CallerContext(t),
     expressions |-> <<>>, i |-> 1, ref1 |-> NoneD, best_result |-> NoneD]

InitConcurrent ==
    /\ now = ConstructedAt
    /\ reference_time = ConstructedAt
    /\ call = NoCall
    /\ outcome = Pending
    /\ \E textA \in ConcurrentTexts, textB \in ConcurrentTexts :
           threads = [t \in Callers |-> Called(t, IF t = "A" THEN textA ELSE textB)]

\* the thread after the i-th expression: at the next one, or done
Advance(thread, best_result) ==
    [thread EXCEPT !.best_result = best_result,
                   !.i = @ + 1,
                   !.pc = IF thread.i < Len(thread.expressions) THEN "assign" ELSE "done"]

\* the thread at the loop over its date_expressions
Started(thread, expressions) ==
    [thread EXCEPT !.expressions = expressions,
                   !.pc = IF expressions = <<>> THEN "done" ELSE "assign"]

\* parse_task up to the loop over date_expressions
Begin(t) ==
    /\ threads[t].pc = "called"
    /\ threads' = [threads EXCEPT ![t] =
           Started(@, DateExpressions(Strip(@.text), @.doc))]
    /\ UNCHANGED <<now, reference_time, call, outcome>>

\* parse_date: self.reference_time = datetime.fromisoformat(...); an empty
\* expression returns before it
Assign(t) ==
    /\ threads[t].pc = "assign"
    /\ IF threads[t].expressions[threads[t].i] = ""
       THEN /\ threads' = [threads EXCEPT ![t] = Advance(@, @.best_result)]
            /\ UNCHANGED reference_time
       ELSE /\ reference_time' = NewReferenceTime(reference_time, threads[t].context)
            /\ threads' = [threads EXCEPT ![t].pc = "read1"]
    /\ UNCHANGED <<now, call, outcome>>

\* the interpreter's first read of self.reference_time
ReadFirst(t) ==
    /\ threads[t].pc = "read1"
    /\ threads' = [threads EXCEPT ![t].ref1 = reference_time, ![t].pc = "read2"]
    /\ UNCHANGED <<now, reference_time, call, outcome>>

\* the last read, the rest of parse_date and of the loop's body
ReadSecond(t) ==
    /\ threads[t].pc = "read2"
    /\ threads' = [threads EXCEPT ![t] =
           Advance(@, Better(ResolveDate(@.expressions[@.i], @.ref1, reference_time),
                             @.best_result))]
    /\ UNCHANGED <<now, reference_time, call, outcome>>

NextConcurrent == \E t \in Callers : Begin(t) \/ Assign(t) \/ ReadFirst(t) \/ ReadSecond(t)

SpecConcurrent == InitConcurrent /\ [][NextConcurrent]_vars

-----------------------------------------------------------------------------
(* SpecRoute: POST /ai/parse-task.  Init draws the request, the             *)
(* configuration and what the OpenAI API answers; the action is the         *)
(* handler.                                                                 *)

RouteInputs == {"call bob tomorrow", "urgent: email the report", "buy milk", " "}

\* what the API call and json.loads come to
FailedReplies == {[kind |-> "api_error"], [kind |-> "bad_json"]}
JsonReplies ==
    {[kind |-> "json",
      result |-> [title |-> "Call Bob", priority |-> "high", confidence |-> 3600]],
     [kind |-> "json", result |-> EmptyDict]}
NoReply == [kind |-> "none"]

\* ENABLE_AI_FEATURES off; on without an API key; on with one
Configurations ==
    {[features_enabled |-> FALSE, client_enabled |-> FALSE, reply |-> NoReply],
     [features_enabled |-> TRUE, client_enabled |-> FALSE, reply |-> NoReply]}
        \cup {[features_enabled |-> TRUE, client_enabled |-> TRUE, reply |-> reply] :
                 reply \in FailedReplies \cup JsonReplies}

Requests ==
    {[input |-> input, context |-> context, doc |-> doc,
      features_enabled |-> c.features_enabled, client_enabled |-> c.client_enabled,
      reply |-> c.reply] :
        input \in RouteInputs, context \in {NoneD, LaterTimestamp},
        doc \in {Doc(<<>>, 1), NlpError}, c \in Configurations}

InitRoute ==
    /\ now = ConstructedAt
    /\ reference_time = ConstructedAt
    /\ call \in {[op |-> "route", request |-> request] : request \in Requests}
    /\ outcome = Pending
    /\ threads = NoThreads

HandleParseTask ==
    /\ call.op = "route"
    /\ outcome = Pending
    /\ outcome' = parse_task_route(call.request, reference_time)
    /\ reference_time' = parse_task_route_reference_time(call.request, reference_time)
    /\ UNCHANGED <<now, call, threads>>

NextRoute == HandleParseTask

SpecRoute == InitRoute /\ [][NextRoute]_vars

-----------------------------------------------------------------------------
(* SpecDate: parse_date as a function of its text and of the reference time *)
(* the parser was constructed with, DateParser(reference_time).  Init draws *)
(* both; the action applies parse_date once, without a context.             *)

\* the largest N of "in N weeks"
MaxAmount == 12

\* str(n)
RECURSIVE IntStr(_)
IntStr(n) ==
    IF n < 10 THEN Ch(DigitChars, n + 1)
    ELSE IntStr(n \div 10) \o Ch(DigitChars, (n % 10) + 1)

RelativeTexts ==
    {"in " \o IntStr(n) \o " " \o unit :
        n \in 0..MaxAmount, unit \in {"week", "weeks", "month", "months"}}

DayTexts == {"today", "tomorrow", "Tomorrow", " tomorrow ", "today or tomorrow"}

\* clock times of the 12-hour clock: "at h:mm am", "at h pm", "h pm"; minute is
\* NoneI where the text has none
ClockTime(with_at, hour, minute, ampm) ==
    [text |-> (IF with_at THEN "at " ELSE "") \o IntStr(hour)
                  \o (IF minute = NoneI THEN "" ELSE ":" \o Pad2(minute))
                  \o " " \o ampm,
     hour |-> hour, minute |-> IF minute = NoneI THEN 0 ELSE minute, ampm |-> ampm]

ClockTimes ==
    {ClockTime(TRUE, hour, minute, ampm) :
        hour \in {3, 11, 12}, minute \in {NoneI, 5, 30}, ampm \in {"am", "pm"}}
        \cup {ClockTime(FALSE, hour, NoneI, ampm) :
                  hour \in {3, 11, 12}, ampm \in {"am", "pm"}}

ClockTexts == {clock.text : clock \in ClockTimes}

OtherTexts ==
    {"", "whenever", "march 5", "13/45/2024", "31 feb", "friday", "5 jan", "1/2/2024",
     "in 3 days", "in 2 hours", "at 9:15", "friday at 3 pm", "tomorrow at 3 pm",
     "13/45/2024 at 3 pm", "32 jan at 5 pm"}

\* a weekday with "next", with "this" or on its own; weekday counts from
\* Monday, 0
WeekdayPhrase(modifier, weekday) ==
    [text |-> (IF modifier = "" THEN "" ELSE modifier \o " ") \o WeekdayNames[weekday + 1],
     modifier |-> modifier, weekday |-> weekday]

WeekdayPhrases ==
    {WeekdayPhrase(modifier, weekday) : modifier \in {"", "this", "next"}, weekday \in 0..6}

WeekdayTexts == {phrase.text : phrase \in WeekdayPhrases}

\* a numeric date a/b/y, alone or before a clock time
NumericDate(a, b, y, rest) ==
    [text |-> IntStr(a) \o "/" \o IntStr(b) \o "/" \o y \o rest, a |-> a, b |-> b, y |-> y]

NumericDates ==
    {NumericDate(a, b, y, rest) :
        a \in {2, 13, 29}, b \in {5, 29, 45}, y \in {"2024", "2023", "24", "75", "49", "50"},
        rest \in {"", " at 3 pm"}}

NumericTexts == {numeric.text : numeric \in NumericDates}

\* a day and the abbreviation of a month, as in "15 jan"
MonthDayPhrase(day, month) ==
    [text |-> IntStr(day) \o " " \o MonthAbbrs[month], day |-> day, month |-> month]

MonthDayPhrases ==
    {MonthDayPhrase(day, month) : day \in {9, 10, 15, 28, 31}, month \in {1, 2, 12}}

MonthDayTexts == {phrase.text : phrase \in MonthDayPhrases}

ResolvedTexts ==
    RelativeTexts \cup DayTexts \cup ClockTexts \cup OtherTexts \cup WeekdayTexts
        \cup NumericTexts \cup MonthDayTexts

\* a Wednesday morning, a New Year's Eve, the eve of a leap day
ReferenceTimes ==
    {ConstructedAt,
     [year |-> 2023, month |-> 12, day |-> 31, hour |-> 18, minute |-> 45, second |-> 0,
      tz |-> "naive"],
     [year |-> 2024, month |-> 2, day |-> 28, hour |-> 23, minute |-> 30, second |-> 0,
      tz |-> "naive"]}

InitDate ==
    /\ now \in ReferenceTimes
    /\ reference_time = now
    /\ call \in {[op |-> "parse_date", text |-> text, context |-> NoneD, at |-> now,
                  ref |-> now] : text \in ResolvedTexts}
    /\ outcome = Pending
    /\ threads = NoThreads

\* date_parser.parse_date(call.text)
ResolveText ==
    /\ call.op = "parse_date"
    /\ outcome = Pending
    /\ outcome' = Returned(parse_date(call.text, reference_time, call.context))
    /\ reference_time' = parse_date_reference_time(call.text, reference_time, call.context)
    /\ UNCHANGED <<now, call, threads>>

NextDate == ResolveText

SpecDate == InitDate /\ [][NextDate]_vars

-----------------------------------------------------------------------------
(* The claims.                                                              *)

\* C1 (SpecTask): estimate_duration_minutes returns an integer that is at
\* least 30, for every ParsedTask.
C1_DurationAtLeast30 ==
    call.op = "estimate_duration_minutes" =>
        /\ ~outcome.raised
        /\ outcome.value \in Nat
        /\ outcome.value >= 30

\* C2 (Spec): no call changes the state of the parser it is called on; its
\* reference_time after every step is the one before.
C2_ReferenceTimeUnchanged == [][reference_time' = reference_time]_vars

\* C3 (Spec): a parse_date call without a context timestamp resolves its text
\* against the instant of the call: its result is that of a parser whose
\* reference time is the clock at the call.
C3_ResolvedAgainstCallInstant ==
    (call.op = "parse_date" /\ ~HasTimestamp(call.context)) =>
        outcome = Returned(ResolveOwn(call.text, call.at))

\* C4 (SpecConcurrent): each of two concurrent callers of parse_task gets the
\* due date that its own text and its own timestamp give, whatever the
\* interleaving.
C4_OwnTimestampUnderInterleaving ==
    \A t \in Callers :
        threads[t].pc = "done" =>
            threads[t].best_result =
                extract_due_date(Strip(threads[t].text), threads[t].doc, ConstructedAt,
                                 threads[t].context)

\* C5 (Spec): a parse_date call whose timestamp is no ISO date-time raises
\* nothing and resolves its text against the default reference time (the
\* instant of the call, or that of the parser's construction), whatever
\* timestamps earlier calls supplied.
C5_MalformedTimestampIgnored ==
    (call.op = "parse_date" /\ IsMalformed(call.context)) =>
        /\ ~outcome.raised
        /\ outcome.value \in {ResolveOwn(call.text, call.at),
                              ResolveOwn(call.text, ConstructedAt)}

\* C6 (SpecParse): when self.nlp fails on a text that is not blank, parse_task
\* raises nothing and returns the ParsedTask of the text without entities and
\* verbs.
C6_AnnotationFailureTolerated ==
    (Done /\ call.op = "parse_task" /\ call.doc = NlpError /\ ~IsBlank(call.text)) =>
        /\ ~outcome.raised
        /\ outcome.value =
               parse_task(call.text, Doc(<<>>, 0), ConstructedAt, call.context).value

\* C7 (SpecRoute): when the OpenAI client is enabled and its analysis fails, the
\* route answers 200 with the parsedTask fields of the local ParsedTask.
C7_LlmFailureFallsBackToLocal ==
    (Done /\ call.op = "route"
        /\ call.request.client_enabled
        /\ call.request.reply \in FailedReplies
        /\ call.request.doc # NlpError
        /\ ~IsBlank(call.request.input)) =>
        /\ outcome.status = 200
        /\ outcome.body.parsedTask =
               LocalFields(parse_task(call.request.input, call.request.doc, ConstructedAt,
                                      call.request.context).value)

\* C8 (SpecParse): for a text with a character that is no whitespace,
\* parse_task returns a title that is not empty and has at most 100
\* characters.
C8_TitleWithinLimit ==
    (Done /\ call.op = "parse_task" /\ ~IsBlank(call.text) /\ ~outcome.raised) =>
        /\ outcome.value.title # ""
        /\ Len(outcome.value.title) <= 100

\* C8's case: the cleaned text is empty and the title falls back to the
\* stripped input
C8_Witness ==
    /\ Done /\ call.op = "parse_task" /\ ~IsBlank(call.text) /\ ~outcome.raised
    /\ CleanTitleText(Strip(call.text)) = ""
    /\ outcome.value.title = Strip(call.text)

\* the tier whose keywords are `keywords` has one in the text
TierOccurs(n, text_lower) ==
    \E j \in 1..Len(priority_keywords[n].keywords) :
        Contains(text_lower, priority_keywords[n].keywords[j])

\* C9 (SpecParse): the priority is high if a high-tier keyword occurs in the
\* lower-cased text, else medium if a medium-tier keyword occurs, else low if
\* a low-tier keyword occurs, else high if the text holds "!" or "now", and
\* medium otherwise.
C9_PriorityByFirstTier ==
    (Done /\ call.op = "parse_task" /\ ~IsBlank(call.text) /\ ~outcome.raised) =>
        outcome.value.priority =
            (IF TierOccurs(1, Lower(call.text)) THEN "high"
             ELSE IF TierOccurs(2, Lower(call.text)) THEN "medium"
             ELSE IF TierOccurs(3, Lower(call.text)) THEN "low"
             ELSE IF Contains(Lower(call.text), "!") \/ Contains(Lower(call.text), "now")
             THEN "high"
             ELSE "medium")

\* C9's case: a text with a high-tier and a low-tier keyword gets high
C9_Witness ==
    /\ Done /\ call.op = "parse_task" /\ ~outcome.raised
    /\ Contains(Lower(call.text), "urgent")
    /\ Contains(Lower(call.text), "someday")
    /\ outcome.value.priority = "high"

\* the suggestions of type reminder, in order
Reminders(suggestions) ==
    SelectSeq(suggestions, LAMBDA suggestion : suggestion.suggestion_type = "reminder")

\* exactly one reminder, with this confidence (in hundredths) and reminder_type
OneReminder(suggestions, confidence, reminder_type) ==
    /\ Len(Reminders(suggestions)) = 1
    /\ Reminders(suggestions)[1].confidence = confidence
    /\ Reminders(suggestions)[1].metadata.reminder_type = reminder_type

\* C10 (SpecTask): generate_suggestions emits one due-date-based reminder
\* (0.6) for a task whose due date has a parsed value, else one
\* priority-based reminder (0.5) for a high-priority task without a due date,
\* and no reminder otherwise.
C10_AtMostOneReminder ==
    call.op = "generate_suggestions" =>
        IF call.parsed_task.due_date # NoneD /\ call.parsed_task.due_date.parsed # NoneS
        THEN OneReminder(outcome.value, 60, "due_date_based")
        ELSE IF call.parsed_task.priority = "high" /\ call.parsed_task.due_date = NoneD
        THEN OneReminder(outcome.value, 50, "priority_based")
        ELSE Reminders(outcome.value) = <<>>

\* C10's case: a high-priority task with a parsed due date gets the one
\* due-date-based reminder
C10_Witness ==
    /\ call.op = "generate_suggestions"
    /\ call.parsed_task.priority = "high"
    /\ call.parsed_task.due_date # NoneD
    /\ call.parsed_task.due_date.parsed # NoneS
    /\ OneReminder(outcome.value, 60, "due_date_based")

\* the context carries a timestamp that fromisoformat accepts
HasIsoTimestamp(context) == HasTimestamp(context) /\ ~IsMalformed(context)

\* C11 (Spec): a parse_task call with a context timestamp returns what its
\* text, its annotation and its timestamp alone determine, whatever
\* reference_time earlier calls left in the parser; two calls with the same
\* three therefore return equal ParsedTasks.
C11_SameArgumentsSameResult ==
    (call.op = "parse_task" /\ HasIsoTimestamp(call.context)) =>
        outcome = parse_task(call.text, call.doc, ConstructedAt, call.context)

\* C11's case: a call with a timestamp and a relative date, made on a parser
\* in which an earlier call left another timestamp
C11_Witness ==
    /\ call.op = "parse_task"
    /\ call.context = EarlierTimestamp
    /\ call.ref = FromIsoFormat(LaterTimestamp.timestamp)
    /\ ~outcome.raised
    /\ outcome.value.due_date # NoneD
    /\ outcome.value.due_date.parsed = "2023-11-21"

\* the three kinds of result: of the table, of the fallback parser, null
DateResultKinds(value, from_table, from_fallback) ==
    /\ (value.parsed = NoneS) <=> (value.precision = NoneS)
    /\ value.confidence \in {0, 60, 80}
    /\ (value.confidence = 80) <=> from_table
    /\ (value.confidence = 60) <=> (~from_table /\ from_fallback)
    /\ (value.confidence = 0) <=> (value.parsed = NoneS)

\* C12 (SpecDate): in every result of parse_date, parsed is null exactly when
\* precision is null; confidence is 0.8 exactly when a pattern of the table
\* gave the date, 0.6 exactly when the fallback parser gave it, and 0.0
\* exactly when parsed is null.
C12_ConfidenceByOrigin ==
    (Done /\ call.op = "parse_date") =>
        /\ ~outcome.raised
        /\ DateResultKinds(
               outcome.value,
               TryPatterns(Strip(Lower(call.text)), 1, call.ref, call.ref).date # NoneD,
               DateutilParse(call.text, call.ref) # NoneD)

\* C12's case: a date that only the fallback parser reads
C12_Witness ==
    /\ Done /\ call.op = "parse_date"
    /\ call.text = "march 5"
    /\ outcome.value.confidence = 60
    /\ outcome.value.precision = "day"
    /\ outcome.value.parsed # NoneS

\* parse_date's result for a text of the table, not of day precision
TableResult(text, dt, precision) ==
    [raw |-> text, parsed |-> IsoFormat(dt), precision |-> precision, confidence |-> 80]

\* C13 (SpecDate): "in N weeks" resolves to midnight of the reference time
\* plus 7 * N days with precision "week", "in N months" to midnight of the
\* reference time plus 30 * N days with precision "month".
C13_WeeksAndMonths ==
    \A n \in 0..MaxAmount :
        /\ (Done /\ call.text \in {"in " \o IntStr(n) \o " weeks",
                                    "in " \o IntStr(n) \o " week"}) =>
               outcome.value =
                   TableResult(call.text, Midnight(AddDays(call.ref, 7 * n)), "week")
        /\ (Done /\ call.text \in {"in " \o IntStr(n) \o " months",
                                    "in " \o IntStr(n) \o " month"}) =>
               outcome.value =
                   TableResult(call.text, Midnight(AddDays(call.ref, 30 * n)), "month")

\* C13's case: twelve months from New Year's Eve, which is not the next New
\* Year's Eve
C13_Witness ==
    /\ Done
    /\ call.text = "in 12 months"
    /\ call.ref.year = 2023 /\ call.ref.month = 12 /\ call.ref.day = 31
    /\ outcome.value.parsed = "2024-12-25T00:00:00"
    /\ outcome.value.precision = "month"

\* parse_date's result for a text of the table, of day precision
DayResult(text, dt) ==
    [raw |-> text, parsed |-> StrfDate(dt), precision |-> "day", confidence |-> 80]

\* C14 (SpecDate): "tomorrow" resolves to the calendar date of the reference
\* time plus one day, "today" to that of the reference time, both with
\* precision "day" and confidence 0.8.
C14_TodayAndTomorrow ==
    /\ (Done /\ call.op = "parse_date" /\ Strip(Lower(call.text)) = "tomorrow") =>
           outcome.value = DayResult(call.text, AddDays(call.ref, 1))
    /\ (Done /\ call.op = "parse_date" /\ Strip(Lower(call.text)) = "today") =>
           outcome.value = DayResult(call.text, call.ref)

\* C14's case: tomorrow on the eve of a leap day, late in the evening
C14_Witness ==
    /\ Done /\ call.op = "parse_date"
    /\ call.text = "tomorrow"
    /\ call.ref.month = 2 /\ call.ref.day = 28 /\ call.ref.hour = 23
    /\ outcome.value.parsed = "2024-02-29"

\* the hour of the 24-hour clock: 12 am is 0, 12 pm is 12, h pm is h + 12
ClockHour(hour, ampm) ==
    IF ampm = "am" THEN (IF hour = 12 THEN 0 ELSE hour)
    ELSE (IF hour = 12 THEN 12 ELSE hour + 12)

\* C20 (SpecDate): a clock time, with or without a leading "at", is resolved
\* by the table: precision "exact", confidence 0.8, and the reference day at
\* that time of the 24-hour clock.
C20_ClockTimeByTable ==
    \A clock \in ClockTimes :
        (Done /\ call.op = "parse_date" /\ call.text = clock.text) =>
            outcome.value =
                TableResult(clock.text,
                            [call.ref EXCEPT !.hour = ClockHour(clock.hour, clock.ampm),
                                             !.minute = clock.minute,
                                             !.second = 0],
                            "exact")

\* the number of the k-th category's keywords that occur in the text
CategoryCount(k, text_lower) ==
    Cardinality({j \in 1..Len(category_keywords[k].keywords) :
                    Contains(text_lower, category_keywords[k].keywords[j])})

\* the k-th category has the highest count, and is the first to have it
FirstHighest(k, text_lower) ==
    /\ CategoryCount(k, text_lower) > 0
    /\ \A j \in 1..Len(category_keywords) :
           CategoryCount(j, text_lower) <= CategoryCount(k, text_lower)
    /\ \A j \in 1..(k - 1) : CategoryCount(j, text_lower) < CategoryCount(k, text_lower)

\* C15 (SpecParse): the category is the one whose keywords occur most in the
\* lower-cased text, the first declared (work, personal, shopping, finance,
\* learning, social) among those that tie; it is null exactly when no
\* keyword of any category occurs.
C15_CategoryByHighestCount ==
    (Done /\ call.op = "parse_task" /\ ~IsBlank(call.text) /\ ~outcome.raised) =>
        /\ <<"work", "personal", "shopping", "finance", "learning", "social">> =
               [k \in 1..Len(category_keywords) |-> category_keywords[k].category]
        /\ \A k \in 1..Len(category_keywords) :
               (outcome.value.category = category_keywords[k].category)
                   <=> FirstHighest(k, Lower(call.text))
        /\ (outcome.value.category = NoneS)
               <=> \A k \in 1..Len(category_keywords) : CategoryCount(k, Lower(call.text)) = 0

\* C15's case: one keyword of work and one of social, work declared first
C15_Witness ==
    /\ Done /\ call.op = "parse_task" /\ ~outcome.raised
    /\ call.text = "call the client"
    /\ CategoryCount(1, Lower(call.text)) = 1
    /\ CategoryCount(6, Lower(call.text)) = 1
    /\ outcome.value.category = "work"

\* the suggestions of type priority_clarification, in order
Clarifications(suggestions) ==
    SelectSeq(suggestions,
              LAMBDA suggestion : suggestion.suggestion_type = "priority_clarification")

\* one of the words occurs in the text
Occurs(words, text) == \E w \in words : Contains(text, w)

\* a medium task of fewer than 5 words without a word of urgency, of low
\* urgency or of obligation
BriefAndUnclear(parsed_task, full_text) ==
    /\ parsed_task.priority = "medium"
    /\ WordCount(full_text) < 5
    /\ ~Occurs({"urgent", "asap", "immediately", "critical", "emergency", "now"}, full_text)
    /\ ~Occurs({"someday", "eventually", "when possible", "nice to have", "optional"},
               full_text)
    /\ ~Occurs({"should", "need to", "have to", "must", "important"}, full_text)

\* C16 (SpecTask): for a medium task whose title and description have fewer
\* than 5 words and none of the urgency, low-urgency and obligation words,
\* generate_suggestions emits exactly one priority_clarification, with
\* confidence 0.5; one with confidence 0.8 is emitted only for a medium task
\* with a word of high urgency in its text.
C16_PriorityClarification ==
    call.op = "generate_suggestions" =>
        /\ BriefAndUnclear(call.parsed_task, FullText(call.parsed_task)) =>
               /\ Len(Clarifications(outcome.value)) = 1
               /\ Clarifications(outcome.value)[1].confidence = 50
        /\ \A i \in 1..Len(Clarifications(outcome.value)) :
               Clarifications(outcome.value)[i].confidence = 80 =>
                   /\ call.parsed_task.priority = "medium"
                   /\ Occurs({"urgent", "asap", "immediately", "critical", "emergency",
                              "now"}, FullText(call.parsed_task))

\* C16's case: a medium task of three words without any keyword
C16_Witness ==
    /\ call.op = "generate_suggestions"
    /\ call.parsed_task.title = "check the mail"
    /\ call.parsed_task.description = NoneS
    /\ call.parsed_task.priority = "medium"
    /\ Len(Clarifications(outcome.value)) = 1
    /\ Clarifications(outcome.value)[1].confidence = 50

\* C17 (SpecTask): every suggestion that generate_suggestions returns, and
\* every TaskSuggestion constructed without metadata or with None, has a
\* metadata that is a mapping, the empty one where none was given, and never
\* None.
C17_MetadataNeverNull ==
    /\ call.op = "generate_suggestions" =>
           \A i \in 1..Len(outcome.value) : outcome.value[i].metadata # NoneD
    /\ call.op = "TaskSuggestion" =>
           /\ outcome.value.metadata # NoneD
           /\ call.metadata = NoneD => outcome.value.metadata = EmptyDict

\* C17's case: a TaskSuggestion constructed with metadata None
C17_Witness ==
    /\ call.op = "TaskSuggestion"
    /\ call.metadata = NoneD
    /\ outcome.value.metadata = EmptyDict

\* the text is empty or holds whitespace only
OnlyWhitespace(text) == \A i \in 1..Len(text) : Ch(text, i) \in SpaceSet

\* C18 (SpecParse): for a text that is empty or whitespace only, parse_task
\* returns, whatever the annotation provider would do, a ParsedTask with
\* title "", confidence 0.0, no due date, no category and no estimated
\* duration.
C18_BlankInputShortCircuit ==
    (Done /\ call.op = "parse_task" /\ OnlyWhitespace(call.text)) =>
        /\ ~outcome.raised
        /\ outcome.value.title = ""
        /\ outcome.value.confidence = 0
        /\ outcome.value.due_date = NoneD
        /\ outcome.value.category = NoneS
        /\ outcome.value.estimated_duration_minutes = NoneI
        /\ outcome.value.raw_input = call.text

\* C18's case: whitespace only, and an annotation provider that would raise
C18_Witness ==
    /\ Done /\ call.op = "parse_task"
    /\ call.text = " \t "
    /\ call.doc = NlpError
    /\ ~outcome.raised
    /\ outcome.value.title = ""

\* the keyword stands in the text at a place where no word character
\* precedes or follows it
WholeWordIn(text, keyword) ==
    \E i \in 1..(Len(text) - Len(keyword) + 1) :
        /\ SubSeq(text, i, i + Len(keyword) - 1) = keyword
        /\ (i = 1 \/ Ch(text, i - 1) \notin WordSet)
        /\ (i + Len(keyword) > Len(text) \/ Ch(text, i + Len(keyword)) \notin WordSet)

\* C19 (SpecParse): the title holds no priority keyword that stands in the
\* input as a whole word, when the cleaned text is not empty.
C19_PriorityKeywordsRemoved ==
    (Done /\ call.op = "parse_task" /\ ~IsBlank(call.text) /\ ~outcome.raised
        /\ CleanTitleText(Strip(call.text)) # "") =>
        \A k \in 1..Len(AllPriorityKeywords) :
            WholeWordIn(Lower(call.text), AllPriorityKeywords[k]) =>
                ~Contains(Lower(outcome.value.title), AllPriorityKeywords[k])

\* the day of the target weekday in the reference's week (Monday to Sunday),
\* or in the week after it
InWeekOf(ref, weekday, following) ==
    AddDays(ref, weekday - Weekday(ref) + (IF following THEN 7 ELSE 0))

\* C21 (SpecDate): with "next", or with no modifier and a target weekday not
\* after the reference's, a weekday resolves to its day in the week after the
\* reference's week; with "this", or with no modifier and a later target
\* weekday, to its day in the reference's week; always with precision "day".
C21_WeekdayByWeek ==
    \A phrase \in WeekdayPhrases :
        (Done /\ call.op = "parse_date" /\ call.text = phrase.text) =>
            outcome.value =
                DayResult(phrase.text,
                          InWeekOf(call.ref, phrase.weekday,
                                   \/ phrase.modifier = "next"
                                   \/ /\ phrase.modifier = ""
                                      /\ phrase.weekday <= Weekday(call.ref)))

\* C30 (SpecDate): a weekday, with "next", "this" or no modifier, resolves to
\* a date on that weekday, 0 to 7 days after the reference's date, and 0 days
\* after it only for "this" with the reference's own weekday.
C30_WeekdayWithinAWeek ==
    \A phrase \in WeekdayPhrases :
        (Done /\ call.op = "parse_date" /\ call.text = phrase.text) =>
            /\ outcome.value.precision = "day"
            /\ \E n \in 0..7 :
                   /\ outcome.value.parsed = StrfDate(AddDays(call.ref, n))
                   /\ Weekday(AddDays(call.ref, n)) = phrase.weekday
                   /\ n = 0 => /\ phrase.modifier = "this"
                               /\ phrase.weekday = Weekday(call.ref)

\* C30's case: "this wednesday" on a Wednesday is the day itself
C30_Witness ==
    /\ Done /\ call.op = "parse_date"
    /\ call.text = "this wednesday"
    /\ call.ref = ConstructedAt
    /\ outcome.value.parsed = StrfDate(ConstructedAt)

\* what the k-th pattern of the table, alone, makes of the text
PatternYield(k, text_lower, ref) ==
    Interpreted(date_patterns[k],
                SearchFrom(date_patterns[k].pat, date_patterns[k].ng, text_lower, 1),
                text_lower, ref, ref)

\* the patterns that match the text and whose interpreter yields a date
Yielding(text_lower, ref) ==
    {k \in 1..Len(date_patterns) : PatternYield(k, text_lower, ref).date # NoneD}

\* the result of the first of the patterns `yielding`, or the fallback's
FirstYield(text, yielding, ref) ==
    IF yielding = {} THEN FallbackResult(text, DateutilParse(text, ref))
    ELSE PatternResult(text, PatternYield(Min(yielding), Strip(Lower(text)), ref), ref)

\* C22 (SpecDate): parse_date returns the result of the first pattern, in the
\* table's order, that matches and whose interpreter yields a date; patterns
\* whose interpreter yields none or raises are passed over, and the fallback
\* parser is tried when no pattern yields.  "friday at 3 pm" resolves as the
\* weekday, with precision "day".
C22_FirstYieldingPattern ==
    (Done /\ call.op = "parse_date" /\ call.text # "") =>
        /\ outcome.value =
               FirstYield(call.text, Yielding(Strip(Lower(call.text)), call.ref), call.ref)
        /\ call.text = "friday at 3 pm" =>
               /\ outcome.value.precision = "day"
               /\ \E n \in 1..7 :
                      /\ Weekday(AddDays(call.ref, n)) = 4
                      /\ outcome.value.parsed = StrfDate(AddDays(call.ref, n))

\* C22's case: the numeric pattern matches and yields no date, the clock
\* pattern after it gives the result
C22_Witness ==
    /\ Done /\ call.op = "parse_date"
    /\ call.text = "13/45/2024 at 3 pm"
    /\ SearchFrom(date_patterns[6].pat, 3, call.text, 1).ok
    /\ Yielding(call.text, call.ref) = {8}
    /\ outcome.value.precision = "exact"
    /\ outcome.value.confidence = 80

\* what parse_date makes of each candidate expression, in the order found
Resolutions(expressions, ref, context) ==
    [i \in 1..Len(expressions) |-> parse_date(expressions[i], ref, context)]

\* the first result of the highest confidence among those with a date, NoneD
\* when no result has a date
FirstHighestResolved(results) ==
    LET resolved == {i \in DOMAIN results : results[i].parsed # NoneS}
    IN  IF resolved = {} THEN NoneD
        ELSE results[CHOOSE i \in resolved :
                         \A j \in resolved :
                             \/ results[j].confidence < results[i].confidence
                             \/ results[j].confidence = results[i].confidence /\ i <= j]

\* C23 (SpecParse): the due date of a parsed task is the candidate of the
\* highest confidence among the candidates that resolve to a date, the
\* candidates being the DATE and TIME entities, then the matches of the time
\* patterns in pattern order, then the date words; of equal confidences the
\* first found is kept, and the due date is null when no candidate resolves.
C23_FirstHighestCandidate ==
    (Done /\ call.op = "parse_task" /\ ~outcome.raised /\ ~OnlyWhitespace(call.text)) =>
        outcome.value.due_date =
            FirstHighestResolved(Resolutions(DateExpressions(Strip(call.text), call.doc),
                                             call.at, call.context))

\* C23's case: an entity and a pattern match of the same confidence and of
\* different dates, the entity being the first found
C23_Witness ==
    /\ Done /\ call.op = "parse_task"
    /\ call.text = "call bob tomorrow or friday"
    /\ call.doc = Doc(<<Ent("friday", "DATE")>>, 1)
    /\ DateExpressions(call.text, call.doc) = <<"friday", "tomorrow", "tomorrow", "friday">>
    /\ outcome.value.due_date.raw = "friday"
    /\ outcome.value.due_date.parsed = "2024-01-12"

\* C23's other case: a date of the fallback parser found before a date of the
\* table
C23_LowerFoundFirst ==
    /\ Done /\ call.op = "parse_task"
    /\ call.text = "pay rent march 5 or friday"
    /\ call.doc = Doc(<<>>, 1)
    /\ DateExpressions(call.text, call.doc) = <<"march 5", "friday">>
    /\ outcome.value.due_date.raw = "friday"

\* the place of the numeric date pattern in the table
NumericPattern == 6

\* the year a numeric date's year digits stand for
YearRead(y) ==
    IF Len(y) = 2 THEN (IF IntOf(y) < 50 THEN 2000 + IntOf(y) ELSE 1900 + IntOf(y))
    ELSE IntOf(y)

\* C24 (SpecDate): a numeric date a/b/y resolves to month a, day b when that
\* is a calendar date, otherwise to month b, day a when that is one, both with
\* precision "day"; otherwise the numeric pattern yields no date and the
\* result is that of the later patterns and the fallback.  A two-digit year
\* yy stands for 2000 + yy below 50 and for 1900 + yy from 50 on.
C24_NumericDate ==
    \A numeric \in NumericDates :
        (Done /\ call.op = "parse_date" /\ call.text = numeric.text) =>
            IF ValidDate(YearRead(numeric.y), numeric.a, numeric.b)
            THEN outcome.value =
                     DayResult(call.text, MakeDate(YearRead(numeric.y), numeric.a, numeric.b))
            ELSE IF ValidDate(YearRead(numeric.y), numeric.b, numeric.a)
            THEN outcome.value =
                     DayResult(call.text, MakeDate(YearRead(numeric.y), numeric.b, numeric.a))
            ELSE outcome.value =
                     FirstYield(call.text,
                                {k \in Yielding(Strip(Lower(call.text)), call.ref) :
                                    k > NumericPattern},
                                call.ref)

\* C24's case: the thirteenth of May 1975, which is a date only with the day
\* first
C24_Witness ==
    /\ Done /\ call.op = "parse_date"
    /\ call.text = "13/5/75"
    /\ outcome.value.parsed = "1975-05-13"
    /\ outcome.value.precision = "day"

\* C24's other case: no date either way, and the clock time after it is read
C24_NeitherWay ==
    /\ Done /\ call.op = "parse_date"
    /\ call.text = "2/29/2023 at 3 pm"
    /\ outcome.value.precision = "exact"
    /\ outcome.value.confidence = 80

\* the day of the month in the year of `ref`, or in the year after when that
\* day is before the calendar day of `ref`
ThisYearOrNext(ref, month, day) ==
    IF ToOrdinal(MakeDate(ref.year, month, day)) < ToOrdinal(ref)
    THEN MakeDate(ref.year + 1, month, day)
    ELSE MakeDate(ref.year, month, day)

\* C25 (SpecDate): a day with the name of a month resolves to that day in the
\* reference's year, unless that calendar date is earlier than the
\* reference's calendar date, when it resolves to the same day of the year
\* after; the reference's own calendar day resolves to itself.
C25_MonthDayByCalendarDate ==
    \A phrase \in MonthDayPhrases :
        (/\ Done /\ call.op = "parse_date" /\ call.text = phrase.text
         /\ ValidDate(call.ref.year, phrase.month, phrase.day)) =>
            outcome.value =
                DayResult(call.text, ThisYearOrNext(call.ref, phrase.month, phrase.day))

\* the minutes of the duration keywords that occur in the text, in the
\* table's order
MatchedMinutes(full_text) ==
    LET matched == SelectSeq(duration_indicators, LAMBDA entry : Contains(full_text, entry[1]))
    IN  [k \in 1..Len(matched) |-> matched[k][2]]

\* the first value, then for each further value the floor of the half of the
\* sum of the estimate and the value
RECURSIVE RunningAverage(_, _)
RunningAverage(values, k) ==
    IF k = 1 THEN values[1]
    ELSE (RunningAverage(values, k - 1) + values[k]) \div 2

\* C26 (SpecTask): when duration keywords occur in the title and description,
\* the estimate before the adjustments by priority and length is the running
\* average in the table's order: the minutes of the first keyword found,
\* replaced for each further keyword found by the floor of half the sum of
\* the estimate and the keyword's minutes; it is not the arithmetic mean.
C26_RunningAverage ==
    (call.op = "estimate_duration_minutes"
        /\ Len(MatchedMinutes(FullText(call.parsed_task))) > 0) =>
        outcome.value =
            AdjustFoundDuration(
                RunningAverage(MatchedMinutes(FullText(call.parsed_task)),
                               Len(MatchedMinutes(FullText(call.parsed_task)))),
                call.parsed_task.priority, WordCount(FullText(call.parsed_task)))

\* C26's case: write (90), review (45), plan (75), organize (90) and report
\* (240) give 67, 71, 80 and then 160, where the arithmetic mean is 108
C26_Witness ==
    /\ call.op = "estimate_duration_minutes"
    /\ call.parsed_task.title
           = "write the report and review the budget then plan and organize the files"
    /\ call.parsed_task.description = NoneS
    /\ call.parsed_task.priority = "medium"
    /\ MatchedMinutes(FullText(call.parsed_task)) = <<90, 45, 75, 90, 240>>
    /\ outcome.value = 160

\* the six suggestion types, in the order of the rules
SuggestionTypes ==
    <<"priority_clarification", "due_date_add", "description_improve", "breakdown",
      "reminder", "delegation">>

\* the place of a suggestion type in that order, 0 for any other type
TypeRank(suggestion_type) ==
    IF \E r \in 1..Len(SuggestionTypes) : SuggestionTypes[r] = suggestion_type
    THEN CHOOSE r \in 1..Len(SuggestionTypes) : SuggestionTypes[r] = suggestion_type
    ELSE 0

\* the types of the suggestions, in the list's order
TypesOf(suggestions) == [i \in 1..Len(suggestions) |-> suggestions[i].suggestion_type]

\* C27 (SpecTask): the list generate_suggestions returns holds each of the six
\* suggestion types at most once, so at most six suggestions, in the order
\* priority_clarification, due_date_add, description_improve, breakdown,
\* reminder, delegation; and no due_date_add for a task that has a due date.
C27_EachTypeOnceInOrder ==
    call.op = "generate_suggestions" =>
        /\ Len(outcome.value) <= Len(SuggestionTypes)
        /\ \A i \in 1..Len(outcome.value) : TypeRank(outcome.value[i].suggestion_type) > 0
        /\ \A i, j \in 1..Len(outcome.value) :
               i < j => TypeRank(outcome.value[i].suggestion_type)
                            < TypeRank(outcome.value[j].suggestion_type)
        /\ call.parsed_task.due_date # NoneD =>
               \A i \in 1..Len(outcome.value) :
                   outcome.value[i].suggestion_type # "due_date_add"

\* C27's case: a short, urgent, high-priority task without a due date, whose
\* description makes it long: all the rules but the first emit, one each
C27_Witness ==
    /\ call.op = "generate_suggestions"
    /\ call.parsed_task.title = "urgent meeting"
    /\ call.parsed_task.priority = "high"
    /\ call.parsed_task.due_date = NoneD
    /\ TypesOf(outcome.value)
           = <<"due_date_add", "description_improve", "breakdown", "reminder", "delegation">>

\* C28 (SpecParse): for an input whose only date expression is "in N days",
\* "in N weeks" or "in N months", annotated without a DATE or TIME entity,
\* the due date of parse_task is what parse_date returns for that expression:
\* for "in 2 weeks", precision "week", confidence 0.8 and the reference date
\* plus 14 days.
C28_RelativeAsResolved ==
    \A stem \in RelativeStems :
        (/\ Done /\ call.op = "parse_task" /\ ~outcome.raised
         /\ Contains(call.text, stem.text)
         /\ EntityExpressions(call.doc.ents) = <<>>) =>
            outcome.value.due_date = parse_date(stem.expression, call.at, call.context)

\* C29 (SpecParse): the due date of every ParsedTask parse_task returns is
\* null, or a structured date whose parsed value and precision are not null
\* and whose confidence is 0.6 or 0.8; never one with a null parsed value.
C29_DueDateNullOrResolved ==
    (Done /\ call.op = "parse_task" /\ ~outcome.raised) =>
        IF outcome.value.due_date = NoneD THEN TRUE
        ELSE /\ outcome.value.due_date.parsed # NoneS
             /\ outcome.value.due_date.precision # NoneS
             /\ outcome.value.due_date.confidence \in {60, 80}

\* C29's case: candidates are found and none resolves to a date
C29_Witness ==
    /\ Done /\ call.op = "parse_task"
    /\ call.text = "review budget next week"
    /\ call.doc = Doc(<<Ent("next week", "DATE")>>, 1)
    /\ DateExpressions(call.text, call.doc) = <<"next week", "week", "next week">>
    /\ outcome.value.due_date = NoneD

====
